---------------------------- MODULE Spec2Model ----------------------------
(***************************************************************************)
(* A model of the OWASP ASVS MCP server (src/src/index.ts): the pagination *)
(* helper, the index builder and tokenizer, the tool-call handler with its *)
(* lazy dataset load on Node's event loop, and the sliding-window rate     *)
(* limiter that PHASE2_IMPLEMENTATION.md documents.                        *)
(*                                                                         *)
(* JavaScript numbers that reach applyPagination are modelled in HALVES:   *)
(* the integer n stands for the number n/2, so that the fractional inputs  *)
(* the tools' inputSchema ("type": "number") admits are part of the model. *)
(* Strings are sequences of one-character strings.                         *)
(***************************************************************************)
EXTENDS Integers, Sequences, FiniteSets, TLC

VARIABLES
    \* --- applyPagination under test
    pgItems, pgOffset, pgLimit, pgOut,
    \* --- ASVSServer fields (index.ts 166-181)
    asvsData, requirementIndex, categoryIndex, searchIndex,
    \* --- how often buildIndexes has run
    indexBuilds,
    \* --- RateLimiter.requests: per client, the timestamps it keeps
    requests,
    \* --- Date.now()
    now,
    \* --- history of the limiter: per client the times of every accepted
    \*     call and of every rejected call, and the latest call
    accepted, rejected, lastCall,
    \* --- ASVSServer fields: the load flags, the data source, the HIPAA data
    dataLoaded, hipaaLoaded, dataSource, hipaaData, asvsToHipaaIndex,
    \* --- the files under data/ as the process finds them
    localFile, hipaaFile,
    \* --- the tool calls received so far, each with the position of its
    \*     handler, and the microtask queue of Node's event loop
    calls, microtasks,
    \* --- how often the body of loadASVSData behind the guard was entered
    loadRuns,
    \* --- a query operation under test: the tool, its arguments, and what
    \*     the caller gets
    qTool, qArgs, qOut,
    \* --- a pure function under test: its arguments and what it returns
    fnIn, fnOut,
    \* --- a caller that walks the pages of a list: the items it has got
    wkPages,
    \* --- OpenCREClient: the clock, the field lastRequestTime, the calls of
    \*     getISO27001Mappings in progress, and when each HTTP request started
    creClock, lastRequestTime, creCalls, creRequests,
    \* the OpenCRE client's cache: a Map from cache key to data and timestamp
    cache

pgVars == <<pgItems, pgOffset, pgLimit, pgOut>>
dataVars == <<asvsData, requirementIndex, categoryIndex, searchIndex>>
rlVars == <<requests, now, accepted, rejected, lastCall>>
srvVars == <<dataLoaded, hipaaLoaded, dataSource, hipaaData, asvsToHipaaIndex,
             localFile, hipaaFile, calls, microtasks, loadRuns>>
qVars == <<qTool, qArgs, qOut>>
fnVars == <<fnIn, fnOut>>
wkVars == <<wkPages>>
creVars == <<creClock, lastRequestTime, creCalls, creRequests, cache>>
vars == <<pgVars, dataVars, indexBuilds, rlVars, srvVars, qVars, fnVars, wkVars, creVars>>

(***************************************************************************)
(* Bounds of the model                                                     *)
(***************************************************************************)
\* longest "short" item list handed to applyPagination
MaxItems == 3
\* most requirements one generated category holds
MaxReqs == 2
\* how often the index builder is re-run on one dataset
MaxBuilds == 2
\* the clock stops here
MaxTime == 6
\* most calls of isAllowed by one client in one behaviour
MaxLimiterCalls == 4
\* most tool calls the server receives in one behaviour
MaxCalls == 3
\* the limiter's configuration (ASVS_RATE_LIMIT_WINDOW_MS, ASVS_RATE_LIMIT_REQUESTS;
\* 60000 and 100 by default), scaled down
windowMs == 3
maxRequests == 2

(***************************************************************************)
(* Numbers                                                                 *)
(***************************************************************************)
MathMin(a, b) == IF a < b THEN a ELSE b
MathMax(a, b) == IF a > b THEN a ELSE b

\* the number n as a model number (in halves)
FromInt(n) == 2 * n

\* ToIntegerOrInfinity of a finite number: truncation toward zero
ToIntegerOrInfinity(x) == IF x >= 0 THEN x \div 2 ELSE -((-x) \div 2)

IsInteger(x) == x % 2 = 0

\* an optional argument: <<>> is undefined, <<v>> is the value v
Undefined == <<>>
Given(v) == <<v>>
OrDefault(arg, d) == IF arg = Undefined THEN d ELSE arg[1]

(***************************************************************************)
(* Array.prototype.slice(start, end) for finite numeric start and end      *)
(***************************************************************************)
Slice(items, start, end) ==
    LET len == Len(items)
        relativeStart == ToIntegerOrInfinity(start)
        k == IF relativeStart < 0 THEN MathMax(len + relativeStart, 0)
                                  ELSE MathMin(relativeStart, len)
        relativeEnd == ToIntegerOrInfinity(end)
        final == IF relativeEnd < 0 THEN MathMax(len + relativeEnd, 0)
                                    ELSE MathMin(relativeEnd, len)
    IN  SubSeq(items, k + 1, final)

(***************************************************************************)
(* applyPagination (index.ts 498-519)                                      *)
(***************************************************************************)
\* the hard ceiling on the page size
MAX_PAGE_LIMIT == 500
\* the default of the limit parameter
DEFAULT_LIMIT == 100

\* a plausible slip: the ceiling on the limit forgotten
applyPaginationNoCeiling(items, offsetArg, limitArg) ==
    LET offset == OrDefault(offsetArg, FromInt(0))
        limit == OrDefault(limitArg, FromInt(DEFAULT_LIMIT))
        safeOffset == MathMax(FromInt(0), MathMin(offset, FromInt(Len(items))))
        safeLimit == MathMax(FromInt(1), limit)
        paginatedItems == Slice(items, safeOffset, safeOffset + safeLimit)
    IN  [items |-> paginatedItems,
         pagination |-> [offset |-> safeOffset,
                         limit |-> safeLimit,
                         total |-> Len(items),
                         returned |-> Len(paginatedItems),
                         hasMore |-> safeOffset + FromInt(Len(paginatedItems))
                                        < FromInt(Len(items))]]

\* a plausible slip: hasMore compared with the last position, not the length
applyPaginationHasMoreOffByOne(items, offsetArg, limitArg) ==
    LET offset == OrDefault(offsetArg, FromInt(0))
        limit == OrDefault(limitArg, FromInt(DEFAULT_LIMIT))
        safeOffset == MathMax(FromInt(0), MathMin(offset, FromInt(Len(items))))
        safeLimit == MathMax(FromInt(1), MathMin(limit, FromInt(MAX_PAGE_LIMIT)))
        paginatedItems == Slice(items, safeOffset, safeOffset + safeLimit)
    IN  [items |-> paginatedItems,
         pagination |-> [offset |-> safeOffset,
                         limit |-> safeLimit,
                         total |-> Len(items),
                         returned |-> Len(paginatedItems),
                         hasMore |-> safeOffset + FromInt(Len(paginatedItems))
                                        < FromInt(Len(items) - 1)]]

applyPagination(items, offsetArg, limitArg) ==
    LET offset == OrDefault(offsetArg, FromInt(0))
        limit == OrDefault(limitArg, FromInt(DEFAULT_LIMIT))
        safeOffset == MathMax(FromInt(0), MathMin(offset, FromInt(Len(items))))
        safeLimit == MathMax(FromInt(1), MathMin(limit, FromInt(MAX_PAGE_LIMIT)))
        paginatedItems == Slice(items, safeOffset, safeOffset + safeLimit)
    IN  [items |-> paginatedItems,
         pagination |-> [offset |-> safeOffset,
                         limit |-> safeLimit,
                         total |-> Len(items),
                         returned |-> Len(paginatedItems),
                         hasMore |-> safeOffset + FromInt(Len(paginatedItems))
                                        < FromInt(Len(items))]]

(***************************************************************************)
(* Strings: sequences of one-character strings                             *)
(***************************************************************************)
LowerLetters == <<"a","b","c","d","e","f","g","h","i","j","k","l","m",
                  "n","o","p","q","r","s","t","u","v","w","x","y","z">>
UpperLetters == <<"A","B","C","D","E","F","G","H","I","J","K","L","M",
                  "N","O","P","Q","R","S","T","U","V","W","X","Y","Z">>
DigitChars == <<"0","1","2","3","4","5","6","7","8","9">>

Range(f) == {f[i] : i \in DOMAIN f}

\* \w of a JavaScript regular expression: [A-Za-z0-9_]
WordChars ==
    Range(LowerLetters) \cup Range(UpperLetters) \cup Range(DigitChars) \cup {"_"}
IsWordChar(c) == c \in WordChars

charToLowerCase(c) ==
    IF c \in Range(UpperLetters)
    THEN LowerLetters[CHOOSE i \in DOMAIN UpperLetters : UpperLetters[i] = c]
    ELSE c

toLowerCase(s) == [i \in DOMAIN s |-> charToLowerCase(s[i])]

\* String(n) of a non-negative integer: its decimal digits
RECURSIVE NumberToString(_)
NumberToString(n) ==
    IF n < 10 THEN <<DigitChars[n + 1]>>
    ELSE Append(NumberToString(n \div 10), DigitChars[(n % 10) + 1])

\* a value that is a string or a number (tokenize's parameter type)
Str(s) == [kind |-> "string", s |-> s, n |-> 0]
Num(n) == [kind |-> "number", s |-> <<>>, n |-> n]
String(text) == IF text.kind = "number" THEN NumberToString(text.n) ELSE text.s

\* s.split(/\W+/): the pieces between maximal runs of non-word characters,
\* with an empty first piece when s is empty or starts with a separator and
\* an empty last piece when s ends with one
SplitNonWord(s) ==
    LET starts == {i \in 1 .. Len(s) :
                      IsWordChar(s[i]) /\ (i = 1 \/ ~IsWordChar(s[i - 1]))}
        IsEnd(j) == j = Len(s) \/ ~IsWordChar(s[j + 1])
        EndOf(i) == CHOOSE j \in i .. Len(s) :
                        IsEnd(j) /\ \A k \in i .. (j - 1) : ~IsEnd(k)
        StartAt(r) == CHOOSE i \in starts : Cardinality({j \in starts : j < i}) = r - 1
        words == [r \in 1 .. Cardinality(starts) |->
                     SubSeq(s, StartAt(r), EndOf(StartAt(r)))]
        leading == IF s = <<>> \/ ~IsWordChar(s[1]) THEN << <<>> >> ELSE <<>>
        trailing == IF s # <<>> /\ ~IsWordChar(s[Len(s)]) THEN << <<>> >> ELSE <<>>
    IN  leading \o words \o trailing

(***************************************************************************)
(* tokenize (index.ts 460-472)                                             *)
(***************************************************************************)
MAX_TOKENIZE_LENGTH == 50000
\* a token is kept when its length is above the one and below the other
MIN_TOKEN_EXCL == 2
MAX_TOKEN_EXCL == 100

\* .filter(t => t.length > 2 && t.length < 100)
RECURSIVE FilterTokens(_)
FilterTokens(pieces) ==
    IF pieces = <<>> THEN <<>>
    ELSE (IF Len(Head(pieces)) > MIN_TOKEN_EXCL /\ Len(Head(pieces)) < MAX_TOKEN_EXCL
          THEN <<Head(pieces)>> ELSE <<>>) \o FilterTokens(Tail(pieces))

tokenize(text) ==
    LET textStr == String(text)
        safeText == IF Len(textStr) > MAX_TOKENIZE_LENGTH
                    THEN SubSeq(textStr, 1, MAX_TOKENIZE_LENGTH)
                    ELSE textStr
    IN  FilterTokens(SplitNonWord(toLowerCase(safeText)))

(***************************************************************************)
(* JavaScript Map and Set keep insertion order: a Map is a sequence of     *)
(* entries [key, value] with distinct keys, a Set a sequence of distinct   *)
(* elements.                                                               *)
(***************************************************************************)
EmptyMap == <<>>
MapKeys(m) == {m[i].key : i \in DOMAIN m}
MapHas(m, k) == k \in MapKeys(m)
MapGet(m, k) == m[CHOOSE i \in DOMAIN m : m[i].key = k].value
\* Map.prototype.set: an existing key keeps its place
MapSet(m, k, v) ==
    IF MapHas(m, k)
    THEN [m EXCEPT ![CHOOSE i \in DOMAIN m : m[i].key = k] = [key |-> k, value |-> v]]
    ELSE Append(m, [key |-> k, value |-> v])

EmptySet == <<>>
SetHas(s, x) == x \in Range(s)
SetAdd(s, x) == IF SetHas(s, x) THEN s ELSE Append(s, x)

\* new Set(array)
RECURSIVE SetOf(_)
SetOf(seq) == IF seq = <<>> THEN EmptySet
              ELSE SetAdd(SetOf(SubSeq(seq, 1, Len(seq) - 1)), seq[Len(seq)])

\* Array.prototype.flatMap with tokenize
RECURSIVE FlatMapTokenize(_)
FlatMapTokenize(seq) ==
    IF seq = <<>> THEN <<>> ELSE tokenize(Head(seq)) \o FlatMapTokenize(Tail(seq))

(***************************************************************************)
(* The dataset: ASVSCategory[] of ASVSRequirement (index.ts 36-57)         *)
(***************************************************************************)
\* a requirement paired with its owning category, in dataset order
RECURSIVE RequirementsOf(_)
RequirementsOf(data) ==
    IF data = <<>> THEN <<>>
    ELSE [i \in DOMAIN Head(data).requirements |->
            [requirement |-> Head(data).requirements[i], category |-> Head(data)]]
         \o RequirementsOf(Tail(data))

(***************************************************************************)
(* The index builder (index.ts 415-458)                                    *)
(***************************************************************************)
\* buildRequirementIndex: clear, then set(req.id, {requirement, category})
RECURSIVE IndexRequirements(_, _)
IndexRequirements(index, entries) ==
    IF entries = <<>> THEN index
    ELSE IndexRequirements(MapSet(index, Head(entries).requirement.id, Head(entries)),
                           Tail(entries))

\* a plausible slip: an id that is indexed already keeps its first entry
buildRequirementIndexKeepFirst(data) ==
    LET RECURSIVE Walk(_, _)
        Walk(index, entries) ==
            IF entries = <<>> THEN index
            ELSE IF MapHas(index, Head(entries).requirement.id)
            THEN Walk(index, Tail(entries))
            ELSE Walk(MapSet(index, Head(entries).requirement.id, Head(entries)),
                      Tail(entries))
    IN  Walk(EmptyMap, RequirementsOf(data))

buildRequirementIndex(data) == IndexRequirements(EmptyMap, RequirementsOf(data))

\* buildCategoryIndex: clear, then two keys per category
RECURSIVE IndexCategories(_, _)
IndexCategories(index, data) ==
    IF data = <<>> THEN index
    ELSE LET category == Head(data)
             normalizedName == toLowerCase(category.name)
         IN  IndexCategories(
                 MapSet(MapSet(index, normalizedName, category),
                        toLowerCase(category.id), category),
                 Tail(data))

buildCategoryIndex(data) == IndexCategories(EmptyMap, data)

\* a plausible slip (it is how PHASE2_IMPLEMENTATION.md prints the builder):
\* only the description is tokenized
RequirementTokensDescriptionOnly(req) == SetOf(tokenize(Str(req.description)))

\* the tokens of one requirement: new Set([...description, ...category, ...id, ...cwe])
RequirementTokens(req) ==
    SetOf(tokenize(Str(req.description)) \o tokenize(Str(req.category))
            \o tokenize(Str(req.id)) \o FlatMapTokenize(req.cwe))

\* for (const token of tokens) { if (!has) set(token, new Set()); get(token).add(req.id) }
RECURSIVE IndexTokens(_, _, _)
IndexTokens(index, tokens, id) ==
    IF tokens = <<>> THEN index
    ELSE LET token == Head(tokens)
             withKey == IF ~MapHas(index, token) THEN MapSet(index, token, EmptySet)
                        ELSE index
         IN  IndexTokens(MapSet(withKey, token, SetAdd(MapGet(withKey, token), id)),
                         Tail(tokens), id)

RECURSIVE IndexSearch(_, _)
IndexSearch(index, entries) ==
    IF entries = <<>> THEN index
    ELSE LET req == Head(entries).requirement
             indexed == IndexTokens(index, RequirementTokens(req), req.id)
         IN  \* both branches are IndexSearch(indexed, Tail(entries)): the
             \* comparison has TLC evaluate indexed before it descends
             IF indexed = EmptyMap THEN IndexSearch(EmptyMap, Tail(entries))
             ELSE IndexSearch(indexed, Tail(entries))

buildSearchIndex(data) == IndexSearch(EmptyMap, RequirementsOf(data))

(***************************************************************************)
(* RateLimiter.isAllowed, the sliding window of PHASE2_IMPLEMENTATION.md   *)
(* 526-547 (the class is not part of src/src/index.ts).                    *)
(***************************************************************************)
Clients == {"c1", "c2"}

\* timestamps.filter(t => now - t < this.windowMs)
RECURSIVE FilterRecent(_, _)
FilterRecent(timestamps, t) ==
    IF timestamps = <<>> THEN <<>>
    ELSE (IF t - Head(timestamps) < windowMs THEN <<Head(timestamps)>> ELSE <<>>)
         \o FilterRecent(Tail(timestamps), t)

\* slips the claims about the limiter must notice
\* ... the comparison off by one
isAllowedOffByOne(reqs, clientId, t) ==
    LET recent == FilterRecent(reqs[clientId], t)
    IN  IF Len(recent) > maxRequests
        THEN [allowed |-> FALSE, requests |-> reqs]
        ELSE [allowed |-> TRUE,
              requests |-> [reqs EXCEPT ![clientId] = Append(recent, t)]]
\* ... a rejected attempt recorded too
isAllowedRecordsRejected(reqs, clientId, t) ==
    LET recent == FilterRecent(reqs[clientId], t)
    IN  IF Len(recent) >= maxRequests
        THEN [allowed |-> FALSE,
              requests |-> [reqs EXCEPT ![clientId] = Append(recent, t)]]
        ELSE [allowed |-> TRUE,
              requests |-> [reqs EXCEPT ![clientId] = Append(recent, t)]]
\* ... old timestamps never dropped
isAllowedNeverPrunes(reqs, clientId, t) ==
    LET recent == reqs[clientId]
    IN  IF Len(recent) >= maxRequests
        THEN [allowed |-> FALSE, requests |-> reqs]
        ELSE [allowed |-> TRUE,
              requests |-> [reqs EXCEPT ![clientId] = Append(recent, t)]]

\* isAllowed(clientId) at time t: the answer and the map afterwards
isAllowed(reqs, clientId, t) ==
    LET timestamps == reqs[clientId]
        recent == FilterRecent(timestamps, t)
    IN  IF Len(recent) >= maxRequests
        THEN [allowed |-> FALSE, requests |-> reqs]
        ELSE [allowed |-> TRUE,
              requests |-> [reqs EXCEPT ![clientId] = Append(recent, t)]]

(***************************************************************************)
(* Datasets the loader can hand over. A generated dataset is a sequence of *)
(* distinct categories, each with one to MaxReqs requirements drawn from a *)
(* pool; parseASVSData gives every requirement its category's name and     *)
(* keeps no category without requirements (index.ts 561-580).              *)
(***************************************************************************)
NoCompliance == [pci_dss |-> <<>>, hipaa |-> <<>>, gdpr |-> <<>>,
                 sox |-> <<>>, iso27001 |-> <<>>]

\* ninety-nine and a hundred x's: the longest token kept, the shortest dropped
Xs(n) == [i \in 1 .. n |-> "x"]

ReqTLS ==
      [id |-> <<"V","1",".","1">>,
       subcategory |-> <<"T","L","S">>,
       description |-> <<"U","s","e"," ","T","L","S",","," ","u","s","e"," ","M","F","A">>,
       level |-> <<1, 2, 3>>,
       cwe |-> <<Str(<<"C","W","E","-","3","1","9">>)>>,
       nist |-> <<>>,
       compliance |-> NoCompliance]
ReqLog ==
      [id |-> <<"R","E","Q","-","0","0","2">>,
       subcategory |-> <<"L","o","g">>,
       description |-> <<"L","o","g"," ","a","l","l"," ","u","s","e">>,
       level |-> <<2, 3>>,
       cwe |-> <<Num(1059), Num(79)>>,
       nist |-> <<>>,
       compliance |-> NoCompliance]
\* the id of ReqTLS again, with another text
ReqPw ==
      [id |-> <<"V","1",".","1">>,
       subcategory |-> <<"P","w">>,
       description |-> <<"-","h","a","s","h","_","p","w"," ","o","k","!">>,
       level |-> <<3>>,
       cwe |-> <<>>,
       nist |-> <<>>,
       compliance |-> NoCompliance]
ReqLong ==
      [id |-> <<"l","o","n","g","_","9">>,
       subcategory |-> <<>>,
       description |-> Xs(MAX_TOKEN_EXCL) \o <<" ">> \o Xs(MAX_TOKEN_EXCL - 1),
       level |-> <<1>>,
       cwe |-> <<>>,
       nist |-> <<>>,
       compliance |-> NoCompliance]

ReqBodies == {ReqTLS, ReqLog, ReqPw, ReqLong}

ShellV1 == [id |-> <<"V","1">>,
            name |-> <<"A","c","c","e","s","s"," ","C","o","n","t","r","o","l">>]
ShellV10 == [id |-> <<"V","1","0">>, name |-> <<"A","c","c","e","s","s">>]
CategoryShells == {ShellV1, ShellV10}

RequirementLists == UNION {[1 .. n -> ReqBodies] : n \in 1 .. MaxReqs}

\* the requirement parseASVSData pushes for an item of a category
MakeRequirement(body, categoryName) ==
    [id |-> body.id, category |-> categoryName, subcategory |-> body.subcategory,
     description |-> body.description, level |-> body.level, cwe |-> body.cwe,
     nist |-> body.nist, compliance |-> body.compliance]

MakeCategory(shell, bodies) ==
    [id |-> shell.id,
     name |-> shell.name,
     requirements |-> [i \in DOMAIN bodies |-> MakeRequirement(bodies[i], shell.name)]]

GeneratedCategories ==
    {MakeCategory(shell, l) : shell \in CategoryShells, l \in RequirementLists}

GeneratedDatasets ==
    {<<>>} \cup {<<c>> : c \in GeneratedCategories}
        \cup {p \in GeneratedCategories \X GeneratedCategories : p[1].id # p[2].id}

(***************************************************************************)
(* States in which a part of the model is at rest                          *)
(***************************************************************************)
NoResult == <<>>

DataIdle ==
    /\ asvsData = <<>>
    /\ requirementIndex = EmptyMap
    /\ categoryIndex = EmptyMap
    /\ searchIndex = EmptyMap
    /\ indexBuilds = 0

NoCall == [client |-> "", time |-> 0, allowed |-> FALSE]

RlIdle ==
    /\ requests = [c \in Clients |-> <<>>]
    /\ now = 0
    /\ accepted = [c \in Clients |-> <<>>]
    /\ rejected = [c \in Clients |-> {}]
    /\ lastCall = NoCall

SrvIdle ==
    /\ dataLoaded = FALSE
    /\ hipaaLoaded = FALSE
    /\ dataSource = "local"
    /\ hipaaData = <<>>
    /\ asvsToHipaaIndex = EmptyMap
    /\ localFile = "ok"
    /\ hipaaFile = "ok"
    /\ calls = <<>>
    /\ microtasks = <<>>
    /\ loadRuns = 0

PgIdle ==
    /\ pgItems = <<>>
    /\ pgOffset = Undefined
    /\ pgLimit = Undefined
    /\ pgOut = NoResult

\* no query operation has been called
QIdle ==
    /\ qTool = ""
    /\ qArgs = <<>>
    /\ qOut = <<>>

\* no pure function is under test
FnIdle ==
    /\ fnIn = <<>>
    /\ fnOut = <<>>

\* no caller walks the pages of a list
WkIdle == wkPages = <<>>

\* no OpenCREClient has been constructed
CreIdle ==
    /\ creClock = 0
    /\ lastRequestTime = 0
    /\ creCalls = <<>>
    /\ creRequests = <<>>
    /\ cache = <<>>

(***************************************************************************)
(* A specification that applies applyPagination to bounded inputs          *)
(***************************************************************************)
\* list lengths: the short ones, and those around the ceiling
PgLengths == (0 .. MaxItems) \cup {MAX_PAGE_LIMIT, MAX_PAGE_LIMIT + 1}

\* caller-supplied numbers, in halves: negative, zero, fractional, beyond
\* the list, around and beyond the ceiling
PgNumbers ==
    ((-3) .. (2 * MaxItems + 3))
        \cup {2 * MAX_PAGE_LIMIT - 1, 2 * MAX_PAGE_LIMIT, 2 * MAX_PAGE_LIMIT + 1,
              2 * MAX_PAGE_LIMIT + 2, 2 * MAX_PAGE_LIMIT + 3, 4 * MAX_PAGE_LIMIT}

PgArgs == {Undefined} \cup {Given(v) : v \in PgNumbers}

PgInit ==
    /\ DataIdle
    /\ RlIdle
    /\ SrvIdle
    /\ QIdle
    /\ FnIdle
    /\ WkIdle
    /\ CreIdle
    /\ pgItems \in {[i \in 1 .. n |-> i] : n \in PgLengths}
    /\ pgOffset \in PgArgs
    /\ pgLimit \in PgArgs
    /\ pgOut = NoResult

\* one call of applyPagination
Paginate ==
    /\ pgOut = NoResult
    /\ pgOut' = <<applyPagination(pgItems, pgOffset, pgLimit)>>
    /\ UNCHANGED <<pgItems, pgOffset, pgLimit>>
    /\ UNCHANGED <<dataVars, indexBuilds, rlVars, srvVars, qVars, fnVars, wkVars, creVars>>

PgNext == Paginate

SpecPage == PgInit /\ [][PgNext]_vars

(***************************************************************************)
(* A specification that runs the index builder over every generated        *)
(* dataset, and runs it again (the builder clears each index first).       *)
(***************************************************************************)
IdxInit ==
    /\ PgIdle
    /\ RlIdle
    /\ SrvIdle
    /\ QIdle
    /\ FnIdle
    /\ WkIdle
    /\ CreIdle
    /\ asvsData \in GeneratedDatasets
    /\ requirementIndex = EmptyMap
    /\ categoryIndex = EmptyMap
    /\ searchIndex = EmptyMap
    /\ indexBuilds = 0

\* buildIndexes (index.ts 415-419)
BuildIndexes ==
    /\ indexBuilds < MaxBuilds
    /\ requirementIndex' = buildRequirementIndex(asvsData)
    /\ categoryIndex' = buildCategoryIndex(asvsData)
    /\ searchIndex' = buildSearchIndex(asvsData)
    /\ indexBuilds' = indexBuilds + 1
    /\ UNCHANGED <<asvsData, pgVars, qVars, fnVars, wkVars, creVars, rlVars, srvVars>>

IdxNext == BuildIndexes

SpecIdx == IdxInit /\ [][IdxNext]_vars

(***************************************************************************)
(* A specification of the rate limiter alone: calls of isAllowed by two    *)
(* clients at non-decreasing times.                                        *)
(***************************************************************************)
RlInit ==
    /\ PgIdle
    /\ DataIdle
    /\ RlIdle
    /\ SrvIdle
    /\ QIdle
    /\ FnIdle
    /\ WkIdle
    /\ CreIdle

\* time passes
Tick ==
    /\ now < MaxTime
    /\ now' = now + 1
    /\ UNCHANGED <<requests, accepted, rejected, lastCall, pgVars, qVars, fnVars, wkVars, creVars, dataVars, indexBuilds,
                   srvVars>>

\* one call of isAllowed(clientId)
IsAllowedCall(clientId) ==
    LET r == isAllowed(requests, clientId, now)
    IN  /\ Len(accepted[clientId]) + Cardinality(rejected[clientId]) < MaxLimiterCalls
        /\ requests' = r.requests
        /\ accepted' = IF r.allowed
                       THEN [accepted EXCEPT ![clientId] = Append(@, now)]
                       ELSE accepted
        /\ rejected' = IF r.allowed
                       THEN rejected
                       ELSE [rejected EXCEPT ![clientId] = @ \cup {now}]
        /\ lastCall' = [client |-> clientId, time |-> now, allowed |-> r.allowed]
        /\ UNCHANGED <<now, pgVars, qVars, fnVars, wkVars, creVars, dataVars, indexBuilds, srvVars>>

RlNext ==
    \/ Tick
    \/ \E clientId \in Clients : IsAllowedCall(clientId)

SpecRL == RlInit /\ [][RlNext]_vars

(***************************************************************************)
(* The HIPAA mapping (index.ts 263-340)                                    *)
(***************************************************************************)
\* s.indexOf(pat), counted from 1; 0 when pat does not occur
IndexOf(s, pat) ==
    LET hits == {i \in 1 .. (Len(s) - Len(pat) + 1) : SubSeq(s, i, i + Len(pat) - 1) = pat}
    IN  IF hits = {} THEN 0 ELSE CHOOSE i \in hits : \A j \in hits : i <= j

\* s.replace(pat, rep) with a string pattern: the first occurrence only
Replace(s, pat, rep) ==
    LET i == IndexOf(s, pat)
    IN  IF i = 0 THEN s ELSE SubSeq(s, 1, i - 1) \o rep \o SubSeq(s, i + Len(pat), Len(s))

\* the HIPAA requirements of the file, in the order of the nested loops
RECURSIVE HipaaRequirementsOfSections(_)
HipaaRequirementsOfSections(sections) ==
    IF sections = <<>> THEN <<>>
    ELSE Head(sections).requirements \o HipaaRequirementsOfSections(Tail(sections))

RECURSIVE HipaaRequirementsOf(_)
HipaaRequirementsOf(categories) ==
    IF categories = <<>> THEN <<>>
    ELSE HipaaRequirementsOfSections(Head(categories).sections)
         \o HipaaRequirementsOf(Tail(categories))

\* for (const asvsMapping of hipaaReq.owasp_asvs_mapping) { ...push(hipaaReq) }
RECURSIVE IndexHipaaMappings(_, _, _)
IndexHipaaMappings(index, mappings, hipaaReq) ==
    IF mappings = <<>> THEN index
    ELSE LET asvsId == <<"V">> \o Replace(Head(mappings), <<"v","5",".","0",".","0","-">>, <<>>)
             withKey == IF ~MapHas(index, asvsId) THEN MapSet(index, asvsId, <<>>)
                        ELSE index
         IN  IndexHipaaMappings(
                 MapSet(withKey, asvsId, Append(MapGet(withKey, asvsId), hipaaReq)),
                 Tail(mappings), hipaaReq)

RECURSIVE IndexHipaa(_, _)
IndexHipaa(index, hipaaReqs) ==
    IF hipaaReqs = <<>> THEN index
    ELSE IndexHipaa(IndexHipaaMappings(index, Head(hipaaReqs).owasp_asvs_mapping,
                                       Head(hipaaReqs)),
                    Tail(hipaaReqs))

buildHIPAAIndex(data) == IndexHipaa(EmptyMap, HipaaRequirementsOf(data))

countHIPAARequirements(data) == Len(HipaaRequirementsOf(data))

\* one requirement after enrichASVSWithHIPAAMappings
EnrichRequirement(index, asvsReq) ==
    IF MapHas(index, asvsReq.id) /\ Len(MapGet(index, asvsReq.id)) > 0
    THEN LET hipaaRefs == MapGet(index, asvsReq.id)
         IN  [asvsReq EXCEPT !.compliance.hipaa =
                 [i \in DOMAIN hipaaRefs |-> hipaaRefs[i].hipaa_reference]]
    ELSE asvsReq

enrichASVSWithHIPAAMappings(data, index) ==
    [c \in DOMAIN data |->
        [id |-> data[c].id,
         name |-> data[c].name,
         requirements |-> [r \in DOMAIN data[c].requirements |->
                              EnrichRequirement(index, data[c].requirements[r])]]]

(***************************************************************************)
(* What the process finds outside itself                                   *)
(***************************************************************************)
\* a file under data/ is there and parses, or statSync/readFileSync/JSON.parse throws
FileStates == {"ok", "unusable"}
\* fetch(url): a response with ok, a response without ok, or a rejection
FetchOutcomes == {"ok", "httpError", "rejected"}
\* response.json(): the body parses, or the promise rejects
BodyOutcomes == {"ok", "rejected"}

\* parseASVSData of data/asvs-5.0.0.json
LocalData == <<MakeCategory(ShellV1, <<ReqTLS, ReqLog>>)>>
\* parseASVSData of what the remote URL serves
RemoteData == <<MakeCategory(ShellV1, <<ReqTLS>>), MakeCategory(ShellV10, <<ReqLog>>)>>
\* getMockData, cut to the first requirement of its first category
MockData ==
    << [id |-> <<"V","2">>,
        name |-> <<"A","u","t","h","e","n","t","i","c","a","t","i","o","n">>,
        requirements |->
          << [id |-> <<"2",".","1",".","1">>,
              category |-> <<"A","u","t","h","e","n","t","i","c","a","t","i","o","n">>,
              subcategory |-> <<"P","a","s","s","w","o","r","d"," ",
                                "S","e","c","u","r","i","t","y">>,
              description |->
                <<"V","e","r","i","f","y"," ","t","h","a","t"," ","u","s","e","r"," ",
                  "s","e","t"," ","p","a","s","s","w","o","r","d","s"," ","a","r","e"," ",
                  "a","t"," ","l","e","a","s","t"," ","1","2"," ",
                  "c","h","a","r","a","c","t","e","r","s"," ","i","n"," ",
                  "l","e","n","g","t","h",".">>,
              level |-> <<1, 2, 3>>,
              cwe |-> <<Str(<<"C","W","E","-","5","2","1">>)>>,
              nist |-> << <<"S","P","8","0","0","-","6","3","B">> >>,
              compliance |->
                [pci_dss |-> << <<"8",".","2",".","3">>, <<"8",".","2",".","4">> >>,
                 hipaa |-> << <<"1","6","4",".","3","0","8","(","a",")","(","5",")",
                                "(","i","i",")","(","D",")">> >>,
                 gdpr |-> << <<"A","r","t","i","c","l","e"," ","3","2">> >>,
                 sox |-> <<>>,
                 iso27001 |-> << <<"A",".","9",".","4",".","3">> >>]] >>] >>

\* data.categories of data/asvs-5.0.0-hipaa-mapping.json: two HIPAA
\* requirements that map to the ASVS requirement 1.1, one of them also to 9.9
HipaaFileData ==
    << [category_id |-> <<"A","S">>,
        category_name |-> <<"A","d","m","i","n">>,
        sections |->
          << [section_id |-> <<"1">>,
              section_title |-> <<"A","c","c","e","s","s">>,
              requirements |->
                << [id |-> <<"H","1">>,
                    hipaa_reference |-> <<"1","6","4",".","3","1","2","(","a",")","(","1",")">>,
                    owasp_asvs_mapping |-> << <<"v","5",".","0",".","0","-","1",".","1">> >>],
                   [id |-> <<"H","2">>,
                    hipaa_reference |-> <<"1","6","4",".","3","0","8","(","a",")","(","4",")">>,
                    owasp_asvs_mapping |-> << <<"v","5",".","0",".","0","-","1",".","1">>,
                                              <<"v","5",".","0",".","0","-","9",".","9">> >>] >>] >>] >>

(***************************************************************************)
(* The tool-call handler on Node's event loop (index.ts 1107-1143 with     *)
(* loadASVSData, 355-413). An async function runs until its next await;    *)
(* what follows the await is queued as a microtask once the awaited        *)
(* promise has settled. Microtasks run first in, first out, and a message  *)
(* from stdin or a settled network promise is taken up only when the       *)
(* microtask queue is empty. The position pc of a call names the           *)
(* continuation that is queued or awaited for it:                          *)
(*   "start"          the handler has yet to be entered                    *)
(*   "afterMappings"  behind  await this.loadMappings()        (line 360)  *)
(*   "fetching"       at      await fetch(url)                 (line 383)  *)
(*   "afterFetch"     behind it, the outcome known                         *)
(*   "readingBody"    at      await response.json()            (line 395)  *)
(*   "afterJson"      behind it, the outcome known                         *)
(*   "afterHipaa"     behind  await this.loadHIPAAMappings()   (line 412)  *)
(*   "dispatch"       behind  await this.loadASVSData()        (line 1108) *)
(*   "done"           the call is answered                                 *)
(***************************************************************************)
\* the tool names a caller sends here: a tool without arguments, and a
\* name the switch does not know
Tools == {"get_category_summary", "no_such_tool"}

\* the one peer of a stdio server, as the rate limiter would name it
StdioClient == "c1"

NoResponse == <<>>

\* counts.l1++ and its like over the requirements of a category
LevelCount(requirements, l) ==
    Cardinality({i \in DOMAIN requirements : l \in Range(requirements[i].level)})

\* createTextResponse: the data with _meta added (the JSON text is not modelled)
createTextResponse(data, source, hLoaded, hData) ==
    [kind |-> "result",
     data |-> data,
     meta |-> [data_source |-> source,
               hipaa_mappings_loaded |-> hLoaded,
               hipaa_requirements_count |->
                   IF hLoaded THEN countHIPAARequirements(hData) ELSE 0]]

getCategorySummary(data, source, hLoaded, hData) ==
    createTextResponse(
        [total_categories |-> Len(data),
         categories |-> [c \in DOMAIN data |->
                            [id |-> data[c].id,
                             name |-> data[c].name,
                             requirement_count |-> Len(data[c].requirements),
                             l1_requirements |-> LevelCount(data[c].requirements, 1),
                             l2_requirements |-> LevelCount(data[c].requirements, 2),
                             l3_requirements |-> LevelCount(data[c].requirements, 3)]]],
        source, hLoaded, hData)

ServerInit ==
    /\ PgIdle
    /\ QIdle
    /\ FnIdle
    /\ WkIdle
    /\ CreIdle
    /\ RlIdle
    /\ DataIdle
    /\ dataLoaded = FALSE
    /\ hipaaLoaded = FALSE
    /\ dataSource = "local"
    /\ hipaaData = <<>>
    /\ asvsToHipaaIndex = EmptyMap
    /\ localFile \in FileStates
    /\ hipaaFile \in FileStates
    /\ calls = <<>>
    /\ microtasks = <<>>
    /\ loadRuns = 0

\* a tools/call request is read from stdin and its handler queued. Requests
\* read from one chunk are queued before any handler runs. The documented
\* limiter is asked beside the handler, as an observer: index.ts has no
\* limiter and the handler never sees the verdict.
Arrive(tool) ==
    LET verdict == isAllowed(requests, StdioClient, now)
    IN  /\ Len(calls) < MaxCalls
        /\ \A id \in Range(microtasks) : calls[id].pc = "start"
        /\ calls' = Append(calls, [tool |-> tool,
                                   pc |-> "start",
                                   fetch |-> "none",
                                   body |-> "none",
                                   limiterAllowed |-> verdict.allowed,
                                   executed |-> FALSE,
                                   response |-> NoResponse])
        /\ microtasks' = Append(microtasks, Len(calls) + 1)
        /\ requests' = verdict.requests
        /\ UNCHANGED <<now, accepted, rejected, lastCall, pgVars, qVars, fnVars, wkVars, creVars, dataVars, indexBuilds,
                       dataLoaded, hipaaLoaded, dataSource, hipaaData, asvsToHipaaIndex,
                       localFile, hipaaFile, loadRuns>>

\* the microtask at the head of the queue belongs to call id at position pc
Runs(id, pc) ==
    /\ microtasks # <<>>
    /\ id = Head(microtasks)
    /\ calls[id].pc = pc

\* the handler is entered and calls loadASVSData: the guard of line 356, and
\* behind it loadMappings (synchronous inside) up to the await of line 360
StartHandler(id) ==
    /\ Runs(id, "start")
    /\ IF dataLoaded
       THEN /\ calls' = [calls EXCEPT ![id].pc = "dispatch"]
            /\ loadRuns' = loadRuns
       ELSE /\ calls' = [calls EXCEPT ![id].pc = "afterMappings"]
            /\ loadRuns' = loadRuns + 1
    /\ microtasks' = Append(Tail(microtasks), id)
    /\ UNCHANGED <<pgVars, qVars, fnVars, wkVars, creVars, rlVars, dataVars, indexBuilds, dataLoaded, hipaaLoaded,
                   dataSource, hipaaData, asvsToHipaaIndex, localFile, hipaaFile>>

\* lines 407-412 with loadHIPAAMappings (263-296) up to its await: the
\* dataset of this run is in place, the flag is set, the indexes are built,
\* and the HIPAA mapping is read and applied unless hipaaLoaded is set. The
\* ID and category indexes hold the very requirement and category objects
\* of asvsData, so they show what the enrichment writes into them.
CompleteLoad(id, data, source) ==
    LET hipaaRuns == ~hipaaLoaded /\ hipaaFile = "ok"
        index == buildHIPAAIndex(HipaaFileData)
        enriched == IF hipaaRuns THEN enrichASVSWithHIPAAMappings(data, index) ELSE data
    IN  /\ asvsData' = enriched
        /\ dataSource' = source
        /\ dataLoaded' = TRUE
        /\ requirementIndex' = buildRequirementIndex(enriched)
        /\ categoryIndex' = buildCategoryIndex(enriched)
        /\ searchIndex' = buildSearchIndex(data)
        /\ indexBuilds' = indexBuilds + 1
        /\ hipaaData' = IF hipaaRuns THEN HipaaFileData ELSE hipaaData
        /\ asvsToHipaaIndex' = IF hipaaRuns THEN index ELSE asvsToHipaaIndex
        /\ hipaaLoaded' = (hipaaLoaded \/ hipaaRuns)
        /\ calls' = [calls EXCEPT ![id].pc = "afterHipaa"]
        /\ microtasks' = Append(Tail(microtasks), id)
        /\ UNCHANGED <<pgVars, qVars, fnVars, wkVars, creVars, rlVars, localFile, hipaaFile, loadRuns>>

\* lines 362-383: the local file is read, or fetch is called
AfterMappings(id) ==
    /\ Runs(id, "afterMappings")
    /\ IF localFile = "ok"
       THEN CompleteLoad(id, LocalData, "local")
       ELSE /\ calls' = [calls EXCEPT ![id].pc = "fetching"]
            /\ microtasks' = Tail(microtasks)
            /\ UNCHANGED <<pgVars, qVars, fnVars, wkVars, creVars, rlVars, dataVars, indexBuilds, dataLoaded, hipaaLoaded,
                           dataSource, hipaaData, asvsToHipaaIndex, localFile, hipaaFile,
                           loadRuns>>

\* the promise of fetch settles
FetchSettles(id, outcome) ==
    /\ microtasks = <<>>
    /\ id \in DOMAIN calls
    /\ calls[id].pc = "fetching"
    /\ calls' = [calls EXCEPT ![id].pc = "afterFetch", ![id].fetch = outcome]
    /\ microtasks' = <<id>>
    /\ UNCHANGED <<pgVars, qVars, fnVars, wkVars, creVars, rlVars, dataVars, indexBuilds, dataLoaded, hipaaLoaded,
                   dataSource, hipaaData, asvsToHipaaIndex, localFile, hipaaFile, loadRuns>>

\* lines 385-395, and the catch of line 402 when fetch failed or answered
\* without ok
AfterFetch(id) ==
    /\ Runs(id, "afterFetch")
    /\ IF calls[id].fetch = "ok"
       THEN /\ calls' = [calls EXCEPT ![id].pc = "readingBody"]
            /\ microtasks' = Tail(microtasks)
            /\ UNCHANGED <<pgVars, qVars, fnVars, wkVars, creVars, rlVars, dataVars, indexBuilds, dataLoaded, hipaaLoaded,
                           dataSource, hipaaData, asvsToHipaaIndex, localFile, hipaaFile,
                           loadRuns>>
       ELSE CompleteLoad(id, MockData, "mock")

\* the promise of response.json() settles
BodySettles(id, outcome) ==
    /\ microtasks = <<>>
    /\ id \in DOMAIN calls
    /\ calls[id].pc = "readingBody"
    /\ calls' = [calls EXCEPT ![id].pc = "afterJson", ![id].body = outcome]
    /\ microtasks' = <<id>>
    /\ UNCHANGED <<pgVars, qVars, fnVars, wkVars, creVars, rlVars, dataVars, indexBuilds, dataLoaded, hipaaLoaded,
                   dataSource, hipaaData, asvsToHipaaIndex, localFile, hipaaFile, loadRuns>>

\* lines 396-398, or the catch of line 402
AfterJson(id) ==
    /\ Runs(id, "afterJson")
    /\ IF calls[id].body = "ok"
       THEN CompleteLoad(id, RemoteData, "remote")
       ELSE CompleteLoad(id, MockData, "mock")

\* loadASVSData returns: the handler's await of line 1108 can go on
AfterHipaa(id) ==
    /\ Runs(id, "afterHipaa")
    /\ calls' = [calls EXCEPT ![id].pc = "dispatch"]
    /\ microtasks' = Append(Tail(microtasks), id)
    /\ UNCHANGED <<pgVars, qVars, fnVars, wkVars, creVars, rlVars, dataVars, indexBuilds, dataLoaded, hipaaLoaded,
                   dataSource, hipaaData, asvsToHipaaIndex, localFile, hipaaFile, loadRuns>>

\* the switch of lines 1112-1141: the tool runs and its result is the
\* answer, or the name is unknown and the handler throws
Dispatch(id) ==
    /\ Runs(id, "dispatch")
    /\ calls' = [calls EXCEPT
           ![id].pc = "done",
           ![id].executed = (calls[id].tool = "get_category_summary"),
           ![id].response =
               IF calls[id].tool = "get_category_summary"
               THEN <<getCategorySummary(asvsData, dataSource, hipaaLoaded, hipaaData)>>
               ELSE <<[kind |-> "exception", message |-> "Unknown tool"]>>]
    /\ microtasks' = Tail(microtasks)
    /\ UNCHANGED <<pgVars, qVars, fnVars, wkVars, creVars, rlVars, dataVars, indexBuilds, dataLoaded, hipaaLoaded,
                   dataSource, hipaaData, asvsToHipaaIndex, localFile, hipaaFile, loadRuns>>

Next ==
    \/ \E tool \in Tools : Arrive(tool)
    \/ \E id \in DOMAIN calls : StartHandler(id)
    \/ \E id \in DOMAIN calls : AfterMappings(id)
    \/ \E id \in DOMAIN calls, outcome \in FetchOutcomes : FetchSettles(id, outcome)
    \/ \E id \in DOMAIN calls : AfterFetch(id)
    \/ \E id \in DOMAIN calls, outcome \in BodyOutcomes : BodySettles(id, outcome)
    \/ \E id \in DOMAIN calls : AfterJson(id)
    \/ \E id \in DOMAIN calls : AfterHipaa(id)
    \/ \E id \in DOMAIN calls : Dispatch(id)

Spec == ServerInit /\ [][Next]_vars

\* some call has been answered
Answered == \E id \in DOMAIN calls : calls[id].pc = "done"

(***************************************************************************)
(* Claims about the load                                                   *)
(***************************************************************************)
\* C3: across any interleaving of tool calls, including calls that arrive
\* before the first load has finished, the body of loadASVSData behind the
\* dataLoaded guard and the index build run exactly once per process: never
\* more than once, and once by the time a call is answered.
C3_LoadsExactlyOnce ==
    /\ loadRuns <= 1
    /\ indexBuilds <= 1
    /\ Answered => (loadRuns = 1 /\ indexBuilds = 1)

\* C4: once any tool call has been answered, no later step of any call
\* replaces or modifies the dataset or one of the three indexes.
C4_DataFrozenOnceAnswered ==
    [][Answered => UNCHANGED <<asvsData, requirementIndex, categoryIndex, searchIndex>>]_vars

\* C8: a tool call the rate limiter rejects is answered with a structured
\* RateLimited result that carries a retry-after hint, not with an
\* exception, and the requested query operation is not executed for it.
C8_RejectedCallGetsRateLimited ==
    \A id \in DOMAIN calls :
        (calls[id].pc = "done" /\ ~calls[id].limiterAllowed) =>
            /\ calls[id].response[1].kind = "RateLimited"
            /\ "retryAfter" \in DOMAIN calls[id].response[1]
            /\ ~calls[id].executed

(***************************************************************************)
(* Claims about applyPagination                                            *)
(***************************************************************************)
ClampInto(x, lo, hi) == IF x < lo THEN lo ELSE IF x > hi THEN hi ELSE x

offset_clamped == ClampInto(OrDefault(pgOffset, FromInt(0)), FromInt(0), FromInt(Len(pgItems)))
limit_clamped == ClampInto(OrDefault(pgLimit, FromInt(DEFAULT_LIMIT)), FromInt(1), FromInt(MAX_PAGE_LIMIT))

\* C1: for every item list and every offset/limit input, applyPagination
\* reports returned = min(limit_clamped, max(0, total - offset_clamped)) and
\* hasMore = (offset_clamped + returned < total), total the list length.
C1_PaginationFormula ==
    pgOut # NoResult =>
        LET p == pgOut[1].pagination
            total == Len(pgItems)
        IN  /\ p.total = total
            /\ FromInt(p.returned)
                 = MathMin(limit_clamped, MathMax(0, FromInt(total) - offset_clamped))
            /\ p.hasMore = (offset_clamped + FromInt(p.returned) < FromInt(total))

\* The same formula restricted to integer offset and limit (not a claim's
\* formula: it records where the formula of C1 does hold).
PaginationFormulaOnIntegers ==
    (/\ pgOut # NoResult
     /\ IsInteger(OrDefault(pgOffset, 0))
     /\ IsInteger(OrDefault(pgLimit, 0))) => C1_PaginationFormula

\* C2: applyPagination always answers, and reports an offset clamped into
\* [0, items.length] and a limit clamped into [1, 500] whatever the caller
\* supplies; no page holds more than 500 items.
C2_PaginationClamps ==
    pgOut # NoResult =>
        LET p == pgOut[1].pagination
        IN  /\ p.offset = offset_clamped
            /\ FromInt(0) <= p.offset /\ p.offset <= FromInt(Len(pgItems))
            /\ p.limit = limit_clamped
            /\ FromInt(1) <= p.limit /\ p.limit <= FromInt(MAX_PAGE_LIMIT)
            /\ Len(pgOut[1].items) <= MAX_PAGE_LIMIT
            /\ p.returned = Len(pgOut[1].items)

\* a list longer than the ceiling asked for with a limit beyond the ceiling:
\* the page is cut at 500
C2_Witness ==
    /\ pgOut # NoResult
    /\ Len(pgItems) > MAX_PAGE_LIMIT
    /\ pgLimit # Undefined /\ pgLimit[1] > FromInt(MAX_PAGE_LIMIT)
    /\ pgOffset # Undefined /\ pgOffset[1] < 0
    /\ pgOut[1].pagination.returned = MAX_PAGE_LIMIT
    /\ pgOut[1].pagination.offset = 0

(***************************************************************************)
(* Claims about the rate limiter                                           *)
(***************************************************************************)
\* the calls of a client accepted in the interval of length windowMs that
\* ends at instant T, counted as the limiter counts: t with 0 <= T - t < windowMs
AcceptedInWindow(clientId, T) ==
    {i \in DOMAIN accepted[clientId] :
        accepted[clientId][i] <= T /\ T - accepted[clientId][i] < windowMs}

\* C5: for each identity and every instant, the calls accepted by isAllowed
\* within the trailing interval of windowMs never exceed maxRequests.
C5_WindowNeverExceedsMax ==
    \A clientId \in Clients : \A T \in 0 .. MaxTime :
        Cardinality(AcceptedInWindow(clientId, T)) <= maxRequests

\* a client that filled one window, was refused, and filled a later window
C5_Witness ==
    \E clientId \in Clients :
        /\ Len(accepted[clientId]) > maxRequests
        /\ rejected[clientId] # {}
        /\ Cardinality(AcceptedInWindow(clientId, now)) = maxRequests

\* C6: a rejected isAllowed call records nothing: the stored timestamps of
\* every client are the same after the rejection as before it.
C6_RejectionRecordsNothing ==
    [][(rejected' # rejected) => (requests' = requests)]_vars

\* a rejection of a client that has timestamps stored, at a time after them
C6_Witness ==
    /\ lastCall.client \in Clients
    /\ ~lastCall.allowed
    /\ Len(requests[lastCall.client]) = maxRequests
    /\ \E i \in DOMAIN requests[lastCall.client] :
          requests[lastCall.client][i] < lastCall.time

\* the calls of the latest caller accepted before its latest call
AcceptedBefore ==
    IF lastCall.allowed
    THEN SubSeq(accepted[lastCall.client], 1, Len(accepted[lastCall.client]) - 1)
    ELSE accepted[lastCall.client]

\* C7: the first maxRequests calls of an identity are allowed, a call that
\* comes in the same instant as maxRequests accepted ones is rejected, and a
\* call made more than windowMs after every earlier accepted call is allowed.
C7_WindowCorrectness ==
    lastCall.client \in Clients =>
        /\ (Len(AcceptedBefore) < maxRequests) => lastCall.allowed
        /\ (Cardinality({i \in DOMAIN AcceptedBefore : AcceptedBefore[i] = lastCall.time})
              >= maxRequests) => ~lastCall.allowed
        /\ (\A i \in DOMAIN AcceptedBefore : lastCall.time - AcceptedBefore[i] > windowMs)
              => lastCall.allowed

\* maxRequests calls at one instant, a rejected call at that instant, and a
\* call allowed again more than windowMs later
C7_Witness ==
    /\ lastCall.client \in Clients
    /\ lastCall.allowed
    /\ Len(AcceptedBefore) = maxRequests
    /\ \A i \in DOMAIN AcceptedBefore :
          /\ AcceptedBefore[i] = AcceptedBefore[1]
          /\ lastCall.time - AcceptedBefore[i] > windowMs
    /\ AcceptedBefore[1] \in rejected[lastCall.client]

(***************************************************************************)
(* Claims about the index builder                                          *)
(***************************************************************************)
\* the cap on distinct search-index keys that PHASE2_IMPLEMENTATION.md
\* documents (5,000 / 10,000 / 20,000 by tier), scaled down
MAX_CACHE_ENTRIES == 8

\* C9: after the index build the search index never holds more than
\* MAX_CACHE_ENTRIES distinct token keys, for every dataset.
C9_SearchIndexWithinCap ==
    indexBuilds > 0 => Cardinality(MapKeys(searchIndex)) <= MAX_CACHE_ENTRIES

HasUniqueId(entries, i) ==
    \A j \in DOMAIN entries : j # i => entries[j].requirement.id # entries[i].requirement.id

\* the tokens of a requirement, as a set
TokensOf(req) ==
    Range(tokenize(Str(req.description))) \cup Range(tokenize(Str(req.category)))
        \cup Range(tokenize(Str(req.id)))
        \cup UNION {Range(tokenize(req.cwe[k])) : k \in DOMAIN req.cwe}

createErrorResponse(message) == [kind |-> "error", isError |-> TRUE, message |-> message]

\* what reaches the caller when the method throws: no tool result at all
Thrown(message) == [kind |-> "exception", message |-> message]

\* this.createTextResponse(data)
textResponse(data) == createTextResponse(data, dataSource, hipaaLoaded, hipaaData)

\* `${level}` of a level argument
LevelText(levelArg) ==
    IF levelArg = Undefined THEN <<"u","n","d","e","f","i","n","e","d">> ELSE NumberToString(levelArg[1])

\* array.includes(arg) for an argument that may be absent
Includes(array, arg) == arg # Undefined /\ arg[1] \in Range(array)

\* a number argument in a condition: undefined and 0 are falsy
Truthy(numArg) == numArg # Undefined /\ numArg[1] # 0

\* array.join(sep) of an array of strings
RECURSIVE Join(_, _)
Join(array, sep) ==
    IF array = <<>> THEN <<>>
    ELSE IF Len(array) = 1 THEN array[1]
    ELSE array[1] \o sep \o Join(Tail(array), sep)

\* s.includes(pat)
StringIncludes(s, pat) == IndexOf(s, pat) # 0

\* the argument object: every property may be absent
NoArgs ==
    [level |-> Undefined, category |-> Undefined, requirement_id |-> Undefined,
     query |-> Undefined, framework |-> Undefined, target_level |-> Undefined,
     current_level |-> Undefined, focus_areas |-> Undefined,
     frameworks |-> Undefined, implemented_requirements |-> Undefined,
     offset |-> Undefined, limit |-> Undefined]

(***************************************************************************)
(* getRequirementsByLevel (index.ts 1146-1169)                             *)
(***************************************************************************)
\* a plausible slip: only the lowest level of a requirement looked at
RequirementsAtLevelLowestOnly(entries, level) ==
    LET RECURSIVE Walk(_)
        Walk(rest) ==
            IF rest = <<>> THEN <<>>
            ELSE (IF Head(rest).requirement.level # <<>>
                     /\ Head(rest).requirement.level[1] = level
                  THEN <<Head(rest).requirement>> ELSE <<>>) \o Walk(Tail(rest))
    IN  Walk(entries)

\* for category, for req: if (req.level.includes(level)) requirements.push(req)
RequirementsAtLevel(entries, level) ==
    LET RECURSIVE Walk(_)
        Walk(rest) ==
            IF rest = <<>> THEN <<>>
            ELSE (IF level \in Range(Head(rest).requirement.level)
                  THEN <<Head(rest).requirement>> ELSE <<>>) \o Walk(Tail(rest))
    IN  Walk(entries)

getRequirementsByLevel(data, args) ==
    IF ~Includes(<<1, 2, 3>>, args.level)
    THEN createErrorResponse(<<"I","n","v","a","l","i","d"," ","l","e","v","e","l",":"," ">> \o LevelText(args.level)
                                \o <<"."," ","M","u","s","t"," ","b","e"," ","1",","," ","2",","," ","o","r"," ","3",".">>)
    ELSE LET level == args.level[1]
             requirements == RequirementsAtLevel(RequirementsOf(data), level)
             page == applyPagination(requirements, args.offset, args.limit)
         IN  textResponse([level |-> <<"L">> \o NumberToString(level)]
                              @@ page.pagination
                              @@ [requirements |-> page.items])

(***************************************************************************)
(* getRequirementsByCategory (index.ts 1171-1213)                          *)
(***************************************************************************)
MAX_CATEGORY_LENGTH == 1000

\* a plausible slip: only keys that contain the input taken for a match
PartialMatchKeyHoldsInput(index, normalized) ==
    LET RECURSIVE Walk(_)
        Walk(entries) ==
            IF entries = <<>> THEN Undefined
            ELSE IF StringIncludes(Head(entries).key, normalized)
                 THEN Given(Head(entries).value)
                 ELSE Walk(Tail(entries))
    IN  Walk(index)

\* for (const [key, cat] of this.categoryIndex.entries()): the first entry
\* whose key contains the input or is contained in it
PartialMatch(index, normalized) ==
    LET RECURSIVE Walk(_)
        Walk(entries) ==
            IF entries = <<>> THEN Undefined
            ELSE IF StringIncludes(Head(entries).key, normalized)
                    \/ StringIncludes(normalized, Head(entries).key)
                 THEN Given(Head(entries).value)
                 ELSE Walk(Tail(entries))
    IN  Walk(index)

\* a plausible slip: the partial match tried before the exact one
ResolveCategoryPartialFirst(index, normalized) ==
    LET partial == PartialMatch(index, normalized)
    IN  IF partial # Undefined THEN partial
        ELSE IF MapHas(index, normalized) THEN Given(MapGet(index, normalized))
        ELSE Undefined

\* categoryIndex.get(normalized), then the fallback to a partial match
ResolveCategory(index, normalized) ==
    IF MapHas(index, normalized) THEN Given(MapGet(index, normalized))
    ELSE PartialMatch(index, normalized)

\* requirements.filter(r => r.level.includes(level))
FilterByLevel(requirements, level) ==
    LET RECURSIVE Walk(_)
        Walk(rest) ==
            IF rest = <<>> THEN <<>>
            ELSE (IF level \in Range(Head(rest).level) THEN <<Head(rest)>> ELSE <<>>)
                 \o Walk(Tail(rest))
    IN  Walk(requirements)

\* the message of the not-found answer
CategoryNotFoundMessage(data, categoryName) ==
    <<"C","a","t","e","g","o","r","y"," ","'">> \o categoryName \o <<"'"," ","n","o","t"," ","f","o","u","n","d","."," ","A","v","a","i","l","a","b","l","e"," ","c","a","t","e","g","o","r","i","e","s",":"," ">>
        \o Join([c \in DOMAIN data |-> data[c].name], <<","," ">>)

getRequirementsByCategory(data, index, args) ==
    IF args.category = Undefined
    THEN Thrown(<<"T","y","p","e","E","r","r","o","r",":"," ","C","a","n","n","o","t"," ","r","e","a","d"," ","p","r","o","p","e","r","t","i","e","s"," ","o","f"," ","u","n","d","e","f","i","n","e","d"," ","(","r","e","a","d","i","n","g"," ","'","l","e","n","g","t","h","'",")">>)
    ELSE LET categoryName == args.category[1]
             normalized == toLowerCase(categoryName)
             category == ResolveCategory(index, normalized)
         IN  IF Len(categoryName) > MAX_CATEGORY_LENGTH
             THEN createErrorResponse(<<"C","a","t","e","g","o","r","y"," ","n","a","m","e"," ","t","o","o"," ","l","o","n","g"," ","(","m","a","x"," ">>
                      \o NumberToString(MAX_CATEGORY_LENGTH) \o <<" ","c","h","a","r","a","c","t","e","r","s",")">>)
             ELSE IF category = Undefined
             THEN createErrorResponse(CategoryNotFoundMessage(data, categoryName))
             ELSE LET requirements ==
                          IF Truthy(args.level)
                          THEN FilterByLevel(category[1].requirements, args.level[1])
                          ELSE category[1].requirements
                      page == applyPagination(requirements, args.offset, args.limit)
                  IN  textResponse([category |-> category[1].name, id |-> category[1].id]
                                       @@ page.pagination
                                       @@ [requirements |-> page.items])

(***************************************************************************)
(* getRequirementDetails (index.ts 1215-1234)                              *)
(***************************************************************************)
MAX_ID_LENGTH == 200

\* the success record of an index entry
DetailsOf(indexed) ==
    textResponse([requirement |-> indexed.requirement,
                  category_name |-> indexed.category.name,
                  category_id |-> indexed.category.id])

IdTooLongMessage ==
    <<"R","e","q","u","i","r","e","m","e","n","t"," ","I","D"," ","t","o","o"," ","l","o","n","g"," ","(","m","a","x"," ">> \o NumberToString(MAX_ID_LENGTH) \o <<" ","c","h","a","r","a","c","t","e","r","s",")">>

\* a plausible slip: the index consulted before the length is checked
getRequirementDetailsLookupFirst(index, args) ==
    IF args.requirement_id = Undefined
    THEN Thrown(<<"T","y","p","e","E","r","r","o","r",":"," ","C","a","n","n","o","t"," ","r","e","a","d"," ","p","r","o","p","e","r","t","i","e","s"," ","o","f"," ","u","n","d","e","f","i","n","e","d"," ","(","r","e","a","d","i","n","g"," ","'","l","e","n","g","t","h","'",")">>)
    ELSE LET reqId == args.requirement_id[1]
         IN  IF MapHas(index, reqId) THEN DetailsOf(MapGet(index, reqId))
             ELSE IF Len(reqId) > MAX_ID_LENGTH THEN createErrorResponse(IdTooLongMessage)
             ELSE createErrorResponse(<<"R","e","q","u","i","r","e","m","e","n","t"," ","'">> \o reqId \o <<"'"," ","n","o","t"," ","f","o","u","n","d",".">>)

getRequirementDetails(index, args) ==
    IF args.requirement_id = Undefined
    THEN Thrown(<<"T","y","p","e","E","r","r","o","r",":"," ","C","a","n","n","o","t"," ","r","e","a","d"," ","p","r","o","p","e","r","t","i","e","s"," ","o","f"," ","u","n","d","e","f","i","n","e","d"," ","(","r","e","a","d","i","n","g"," ","'","l","e","n","g","t","h","'",")">>)
    ELSE LET reqId == args.requirement_id[1]
         IN  IF Len(reqId) > MAX_ID_LENGTH THEN createErrorResponse(IdTooLongMessage)
             ELSE IF MapHas(index, reqId) THEN DetailsOf(MapGet(index, reqId))
             ELSE createErrorResponse(<<"R","e","q","u","i","r","e","m","e","n","t"," ","'">> \o reqId \o <<"'"," ","n","o","t"," ","f","o","u","n","d",".">>)

(***************************************************************************)
(* searchRequirements (index.ts 1292-1327)                                 *)
(***************************************************************************)
MAX_QUERY_LENGTH == 5000
\* limit ?? 50
SEARCH_DEFAULT_LIMIT == 50

\* ids.forEach(id => matchingIds.add(id))
AddAll(set, ids) ==
    LET RECURSIVE Walk(_, _)
        Walk(acc, rest) ==
            IF rest = <<>> THEN acc ELSE Walk(SetAdd(acc, Head(rest)), Tail(rest))
    IN  Walk(set, ids)

\* a plausible slip: only the first token of the query looked up
MatchingIdsFirstTokenOnly(index, queryTokens) ==
    IF queryTokens # <<>> /\ MapHas(index, Head(queryTokens))
    THEN AddAll(EmptySet, MapGet(index, Head(queryTokens)))
    ELSE EmptySet

\* for (const token of queryTokens) { const ids = this.searchIndex.get(token); ... }
MatchingIds(index, queryTokens) ==
    LET RECURSIVE Walk(_, _)
        Walk(acc, rest) ==
            IF rest = <<>> THEN acc
            ELSE Walk(IF MapHas(index, Head(rest))
                      THEN AddAll(acc, MapGet(index, Head(rest)))
                      ELSE acc,
                      Tail(rest))
    IN  Walk(EmptySet, queryTokens)

\* for (const id of matchingIds): the indexed requirement, when the level
\* is falsy or in its level list
SearchResults(reqIndex, matchingIds, levelArg) ==
    LET RECURSIVE Walk(_)
        Walk(rest) ==
            IF rest = <<>> THEN <<>>
            ELSE (IF MapHas(reqIndex, Head(rest))
                     /\ (~Truthy(levelArg)
                         \/ levelArg[1] \in Range(MapGet(reqIndex, Head(rest)).requirement.level))
                  THEN <<MapGet(reqIndex, Head(rest)).requirement>>
                  ELSE <<>>) \o Walk(Tail(rest))
    IN  Walk(matchingIds)

\* the list of results before pagination
searchResultsOf(reqIndex, index, query, levelArg) ==
    SearchResults(reqIndex, MatchingIds(index, tokenize(Str(query))), levelArg)

searchRequirements(reqIndex, index, args) ==
    IF args.query = Undefined
    THEN Thrown(<<"T","y","p","e","E","r","r","o","r",":"," ","C","a","n","n","o","t"," ","r","e","a","d"," ","p","r","o","p","e","r","t","i","e","s"," ","o","f"," ","u","n","d","e","f","i","n","e","d"," ","(","r","e","a","d","i","n","g"," ","'","l","e","n","g","t","h","'",")">>)
    ELSE LET query == args.query[1]
         IN  IF Len(query) > MAX_QUERY_LENGTH
             THEN createErrorResponse(<<"Q","u","e","r","y"," ","t","o","o"," ","l","o","n","g"," ","(","m","a","x"," ">>
                      \o NumberToString(MAX_QUERY_LENGTH) \o <<" ","c","h","a","r","a","c","t","e","r","s",")">>)
             ELSE LET results == searchResultsOf(reqIndex, index, query, args.level)
                      page == applyPagination(results, args.offset,
                                  Given(OrDefault(args.limit, FromInt(SEARCH_DEFAULT_LIMIT))))
                  IN  textResponse([query |-> query]
                                       @@ page.pagination
                                       @@ [results |-> page.items])

(***************************************************************************)
(* recommendPriorityControls (index.ts 1236-1290)                          *)
(***************************************************************************)
GENERAL_HIGH_PRIORITY_CATEGORIES ==
    << <<"A","u","t","h","e","n","t","i","c","a","t","i","o","n">>, <<"A","c","c","e","s","s"," ","C","o","n","t","r","o","l">>, <<"S","e","s","s","i","o","n"," ","M","a","n","a","g","e","m","e","n","t">>,
       <<"V","a","l","i","d","a","t","i","o","n",","," ","S","a","n","i","t","i","z","a","t","i","o","n"," ","a","n","d"," ","E","n","c","o","d","i","n","g">> >>

\* GENERAL_HIGH_PRIORITY_CATEGORIES.some(hpc => category.name.includes(hpc))
IsHighPriority(categoryName) ==
    \E i \in DOMAIN GENERAL_HIGH_PRIORITY_CATEGORIES :
        StringIncludes(categoryName, GENERAL_HIGH_PRIORITY_CATEGORIES[i])

\* focus_areas.length === 0 || focus_areas.some(fa => ...includes(fa.toLowerCase()))
IsFocusArea(categoryName, focus_areas) ==
    \/ Len(focus_areas) = 0
    \/ \E i \in DOMAIN focus_areas :
          StringIncludes(toLowerCase(categoryName), toLowerCase(focus_areas[i]))

\* Math.min(...req.level) of a non-empty level list
MinLevel(level) == CHOOSE m \in Range(level) : \A l \in Range(level) : m <= l

\* a plausible slip: requirements at the current level recommended as well
CandidatesAtLeastCurrent(entries, targetLevel, current_level, focus_areas) ==
    LET RECURSIVE Walk(_)
        Walk(rest) ==
            IF rest = <<>> THEN <<>>
            ELSE LET req == Head(rest).requirement
                     name == Head(rest).category.name
                 IN  (IF IsFocusArea(name, focus_areas)
                         /\ Includes(req.level, targetLevel)
                         /\ MinLevel(req.level) >= current_level
                      THEN << [requirement |-> req,
                               priority |-> IF IsHighPriority(name) THEN "HIGH" ELSE "MEDIUM",
                               minLevel |-> MinLevel(req.level)] >>
                      ELSE <<>>) \o Walk(Tail(rest))
    IN  Walk(entries)

\* the loop over the categories and their requirements: what is pushed
Candidates(entries, targetLevel, current_level, focus_areas) ==
    LET RECURSIVE Walk(_)
        Walk(rest) ==
            IF rest = <<>> THEN <<>>
            ELSE LET req == Head(rest).requirement
                     name == Head(rest).category.name
                 IN  (IF ~(~IsFocusArea(name, focus_areas) /\ Len(focus_areas) > 0)
                         /\ Includes(req.level, targetLevel)
                         /\ MinLevel(req.level) > current_level
                      THEN << [requirement |-> req,
                               priority |-> IF IsHighPriority(name) THEN "HIGH" ELSE "MEDIUM",
                               minLevel |-> MinLevel(req.level)] >>
                      ELSE <<>>) \o Walk(Tail(rest))
    IN  Walk(entries)

\* the comparator of the sort: negative, zero or positive
ComparePriority(a, b) ==
    IF a.priority # b.priority
    THEN (IF a.priority = "HIGH" THEN -1 ELSE 1)
    ELSE a.minLevel - b.minLevel

\* a plausible slip: the comparator without the level
ComparePriorityOnly(a, b) ==
    IF a.priority # b.priority
    THEN (IF a.priority = "HIGH" THEN -1 ELSE 1)
    ELSE 0

\* the sort with the slipped comparator
SortByPriorityOnly(list) ==
    LET Insert(sorted, x) ==
            LET before == {i \in DOMAIN sorted : ComparePriorityOnly(sorted[i], x) <= 0}
                k == IF before = {} THEN 0
                     ELSE CHOOSE i \in before : \A j \in before : j <= i
            IN  SubSeq(sorted, 1, k) \o <<x>> \o SubSeq(sorted, k + 1, Len(sorted))
        RECURSIVE Walk(_, _)
        Walk(sorted, rest) ==
            IF rest = <<>> THEN sorted ELSE Walk(Insert(sorted, Head(rest)), Tail(rest))
    IN  Walk(<<>>, list)

\* Array.prototype.sort with ComparePriority; the sort is stable (ECMAScript
\* 2019), so each element goes behind the last one that is not greater
SortRecommendations(list) ==
    LET Insert(sorted, x) ==
            LET before == {i \in DOMAIN sorted : ComparePriority(sorted[i], x) <= 0}
                k == IF before = {} THEN 0
                     ELSE CHOOSE i \in before : \A j \in before : j <= i
            IN  SubSeq(sorted, 1, k) \o <<x>> \o SubSeq(sorted, k + 1, Len(sorted))
        RECURSIVE Walk(_, _)
        Walk(sorted, rest) ==
            IF rest = <<>> THEN sorted ELSE Walk(Insert(sorted, Head(rest)), Tail(rest))
    IN  Walk(<<>>, list)

\* the sorted recommendations before pagination: {...r.requirement, priority}
recommendationsOf(data, args) ==
    LET sorted == SortRecommendations(
                      Candidates(RequirementsOf(data), args.target_level,
                                 OrDefault(args.current_level, 0),
                                 OrDefault(args.focus_areas, <<>>)))
    IN  [i \in DOMAIN sorted |-> sorted[i].requirement @@ [priority |-> sorted[i].priority]]

RECOMMEND_DEFAULT_LIMIT == 50

recommendPriorityControls(data, args) ==
    LET page == applyPagination(recommendationsOf(data, args), args.offset,
                    Given(OrDefault(args.limit, FromInt(RECOMMEND_DEFAULT_LIMIT))))
    IN  textResponse([target_level |-> <<"L">> \o LevelText(args.target_level),
                      current_level |->
                          <<"L">> \o NumberToString(OrDefault(args.current_level, 0)),
                      application_type |-> Undefined,
                      focus_areas |-> OrDefault(args.focus_areas, <<>>)]
                         @@ page.pagination
                         @@ [recommendations |-> page.items])

(***************************************************************************)
(* getComplianceRequirements (index.ts 1356-1384)                          *)
(***************************************************************************)
FRAMEWORK_MAP ==
    [pci_dss |-> "PCI DSS", hipaa |-> "HIPAA", gdpr |-> "GDPR", sox |-> "SOX",
     iso27001 |-> "ISO 27001"]

\* req.compliance?.[framework]: the list, or undefined when the requirement
\* has no compliance object or the object has no such key
ComplianceRefs(req, frameworkArg) ==
    IF frameworkArg # Undefined /\ frameworkArg[1] \in DOMAIN req.compliance
    THEN Given(req.compliance[frameworkArg[1]])
    ELSE Undefined

\* a plausible slip: an empty list taken for a reference
HasComplianceRefsWhenPresent(req, frameworkArg) ==
    ComplianceRefs(req, frameworkArg) # Undefined

\* complianceRefs && complianceRefs.length > 0
HasComplianceRefs(req, frameworkArg) ==
    /\ ComplianceRefs(req, frameworkArg) # Undefined
    /\ Len(ComplianceRefs(req, frameworkArg)[1]) > 0

\* the loop over the categories and their requirements: what is pushed
ComplianceResults(entries, frameworkArg, levelArg) ==
    LET RECURSIVE Walk(_)
        Walk(rest) ==
            IF rest = <<>> THEN <<>>
            ELSE LET req == Head(rest).requirement
                 IN  (IF ~(Truthy(levelArg) /\ ~Includes(req.level, levelArg))
                         /\ HasComplianceRefs(req, frameworkArg)
                      THEN <<req @@ [compliance_references |->
                                        ComplianceRefs(req, frameworkArg)[1]]>>
                      ELSE <<>>) \o Walk(Tail(rest))
    IN  Walk(entries)

getComplianceRequirements(data, args) ==
    LET results == ComplianceResults(RequirementsOf(data), args.framework, args.level)
        page == applyPagination(results, args.offset, args.limit)
    IN  textResponse([framework |->
                          IF args.framework # Undefined
                             /\ args.framework[1] \in DOMAIN FRAMEWORK_MAP
                          THEN Given(FRAMEWORK_MAP[args.framework[1]])
                          ELSE args.framework,
                      framework_key |-> args.framework,
                      level |-> IF Truthy(args.level)
                                THEN <<"L">> \o NumberToString(args.level[1])
                                ELSE <<"A","l","l"," ","l","e","v","e","l","s">>]
                         @@ page.pagination
                         @@ [requirements |-> page.items])

(***************************************************************************)
(* IEEE 754 double arithmetic, as far as the coverage percentage needs it  *)
(* (index.ts 1444-1446): (implemented / total) * 100 and Math.round. A     *)
(* positive double is its 53-bit significand, most significant bit first,  *)
(* with a scale k: the value is significand * 2^(-k). Every operation      *)
(* rounds to nearest, ties to even.                                        *)
(***************************************************************************)
SIGNIFICAND_BITS == 53

Zeros(n) == [i \in 1 .. n |-> 0]

\* a + b for bit sequences of one length, most significant bit first; a
\* carry out of the first bit is dropped (the callers leave room for it).
\* The carry into a position comes from a lower position where both bits
\* are set, through positions that all pass it on.
AddBits(a, b) ==
    LET carry(i) ==
            IF \E j \in (i + 1) .. Len(a) :
                   /\ a[j] + b[j] = 2
                   /\ \A k \in (i + 1) .. (j - 1) : a[k] + b[k] >= 1
            THEN 1 ELSE 0
        sum == [i \in 1 .. Len(a) |-> (a[i] + b[i] + carry(i)) % 2]
    IN  SubSeq(sum, 1, Len(a))

\* the bits without their leading zeros
StripZeros(bits) ==
    LET ones == {i \in DOMAIN bits : bits[i] = 1}
    IN  IF ones = {} THEN <<>>
        ELSE SubSeq(bits, CHOOSE i \in ones : \A j \in ones : i <= j, Len(bits))

\* the value of a short bit sequence
RECURSIVE BitsToInt(_)
BitsToInt(bits) ==
    IF bits = <<>> THEN 0
    ELSE 2 * BitsToInt(SubSeq(bits, 1, Len(bits) - 1)) + bits[Len(bits)]

\* kept bits and what lies behind them: the nearest double, ties to even.
\* above: the rest is more than half a unit of the last kept bit;
\* half: it is exactly half
RoundToDouble(kept, scale, above, half) ==
    LET up == above \/ (half /\ kept[Len(kept)] = 1)
        sum == AddBits(<<0>> \o kept, Zeros(Len(kept)) \o <<1>>)
    IN  IF ~up THEN [significand |-> kept, scale |-> scale]
        ELSE IF sum[1] = 1
        THEN [significand |-> SubSeq(sum, 1, Len(kept)), scale |-> scale - 1]
        ELSE [significand |-> Tail(sum), scale |-> scale]

\* implemented / total for 0 < implemented < total: binary long division,
\* eight bits at a time, to 53 significant bits; what is left of the
\* dividend decides the rounding
DivideDouble(implemented, total) ==
    LET RECURSIVE Remainder(_)
        \* what is left after 8 * j bits of the quotient
        Remainder(j) == IF j = 0 THEN implemented ELSE (Remainder(j - 1) * 256) % total
        chunk(j) == (Remainder(j - 1) * 256) \div total
        Pow2(n) == <<1, 2, 4, 8, 16, 32, 64, 128>>[n + 1]
        \* the k-th bit behind the binary point
        bit(k) == (chunk(((k - 1) \div 8) + 1) \div Pow2(7 - ((k - 1) % 8))) % 2
        first == CHOOSE k \in 1 .. 32 : bit(k) = 1 /\ \A j \in 1 .. (k - 1) : bit(j) = 0
        last == first + SIGNIFICAND_BITS - 1
        left == (Remainder(last \div 8) * Pow2(last % 8)) % total
    IN  RoundToDouble([k \in 1 .. SIGNIFICAND_BITS |-> bit(first + k - 1)], last,
                      2 * left > total, 2 * left = total)

\* x * 100: the exact product 64x + 32x + 4x, rounded to 53 bits
TimesHundred(x) ==
    LET m == x.significand
        product == StripZeros(
            AddBits(AddBits(<<0>> \o m \o Zeros(6), <<0, 0>> \o m \o Zeros(5)),
                    <<0, 0, 0, 0, 0>> \o m \o Zeros(2)))
        dropped == SubSeq(product, SIGNIFICAND_BITS + 1, Len(product))
    IN  RoundToDouble(SubSeq(product, 1, SIGNIFICAND_BITS), x.scale - Len(dropped),
                      dropped[1] = 1 /\ Tail(dropped) # Zeros(Len(dropped) - 1),
                      dropped[1] = 1 /\ Tail(dropped) = Zeros(Len(dropped) - 1))

\* Math.round of a positive double below 2^52: the integer nearest to it,
\* the upper one of two that are equally near
MathRound(x) ==
    LET m == x.significand
        k == x.scale
    IN  IF k > Len(m) THEN 0
        ELSE BitsToInt(SubSeq(m, 1, Len(m) - k)) + m[Len(m) - k + 1]

\* coverage[f].total > 0 ? Math.round((implemented / total) * 100) : 0
CoveragePercentage(implemented, total) ==
    IF total > 0
    THEN (IF implemented = 0 THEN 0
          ELSE IF implemented = total THEN 100
          ELSE MathRound(TimesHundred(DivideDouble(implemented, total))))
    ELSE 0

(***************************************************************************)
(* calculateGapPriority (index.ts 1452-1478)                               *)
(***************************************************************************)
COMPLIANCE_HIGH_PRIORITY_CATEGORIES ==
    << <<"A","u","t","h","e","n","t","i","c","a","t","i","o","n">>, <<"A","c","c","e","s","s"," ","C","o","n","t","r","o","l">>, <<"D","a","t","a"," ","P","r","o","t","e","c","t","i","o","n">>, <<"C","o","m","m","u","n","i","c","a","t","i","o","n">> >>

criticalCompliancePatterns ==
    [pci_dss |-> << <<"3",".","2">>, <<"3",".","4">>, <<"4",".","1">>, <<"8",".","2">> >>,
     hipaa |-> << <<"1","6","4",".","3","1","2","(","a",")","(","1",")">>, <<"1","6","4",".","3","1","2","(","e",")","(","1",")">>, <<"1","6","4",".","3","0","8","(","a",")","(","4",")">> >>,
     gdpr |-> << <<"A","r","t","i","c","l","e"," ","3","2">> >>,
     sox |-> << <<"I","T"," ","G","e","n","e","r","a","l"," ","C","o","n","t","r","o","l","s">> >>,
     iso27001 |-> << <<"A",".","9",".","4">>, <<"A",".","1","0",".","1">>, <<"A",".","1","3",".","1">> >>]

\* req.compliance?.[framework] || []
ComplianceRefsOrNone(req, framework) ==
    OrDefault(ComplianceRefs(req, Given(framework)), <<>>)

\* patterns[framework]?.some(pattern => refs.some(ref => ref.includes(pattern)))
isCriticalCompliance(req, framework) ==
    /\ framework \in DOMAIN criticalCompliancePatterns
    /\ \E p \in DOMAIN criticalCompliancePatterns[framework] :
          \E r \in DOMAIN ComplianceRefsOrNone(req, framework) :
              StringIncludes(ComplianceRefsOrNone(req, framework)[r],
                             criticalCompliancePatterns[framework][p])

\* a plausible slip: the category name compared with the names, not searched
isHighPriorityCategoryByEquality(req) ==
    \E i \in DOMAIN COMPLIANCE_HIGH_PRIORITY_CATEGORIES :
        req.category = COMPLIANCE_HIGH_PRIORITY_CATEGORIES[i]

\* COMPLIANCE_HIGH_PRIORITY_CATEGORIES.some(cat => req.category.includes(cat))
isHighPriorityCategory(req) ==
    \E i \in DOMAIN COMPLIANCE_HIGH_PRIORITY_CATEGORIES :
        StringIncludes(req.category, COMPLIANCE_HIGH_PRIORITY_CATEGORIES[i])

calculateGapPriority(req, framework) ==
    IF isCriticalCompliance(req, framework)
       \/ (isHighPriorityCategory(req) /\ 1 \in Range(req.level))
    THEN "HIGH"
    ELSE IF isHighPriorityCategory(req) \/ 2 \in Range(req.level)
    THEN "MEDIUM"
    ELSE "LOW"

(***************************************************************************)
(* getComplianceGapAnalysis (index.ts 1386-1450)                           *)
(***************************************************************************)
\* const priorityOrder = { HIGH: 0, MEDIUM: 1, LOW: 2 }
priorityOrder == [HIGH |-> 0, MEDIUM |-> 1, LOW |-> 2]

\* a plausible slip: the gap list left in dataset order
SortGapsNot(list) == list

\* gaps[framework].sort((a, b) => priorityOrder[a.priority] - ...): the sort
\* is stable, so each element goes behind the last one that is not greater
SortGaps(list) ==
    LET Insert(sorted, x) ==
            LET before == {i \in DOMAIN sorted :
                              priorityOrder[sorted[i].priority] - priorityOrder[x.priority] <= 0}
                k == IF before = {} THEN 0
                     ELSE CHOOSE i \in before : \A j \in before : j <= i
            IN  SubSeq(sorted, 1, k) \o <<x>> \o SubSeq(sorted, k + 1, Len(sorted))
        RECURSIVE Walk(_, _)
        Walk(sorted, rest) ==
            IF rest = <<>> THEN sorted ELSE Walk(Insert(sorted, Head(rest)), Tail(rest))
    IN  Walk(<<>>, list)

\* the first loop over the frameworks: an empty gap list and zero counts
\* under each key
InitialAnalysis(frameworks) ==
    LET RECURSIVE Walk(_, _)
        Walk(acc, rest) ==
            IF rest = <<>> THEN acc
            ELSE Walk([gaps |-> MapSet(acc.gaps, Head(rest), <<>>),
                       coverage |-> MapSet(acc.coverage, Head(rest),
                                        [total |-> 0, implemented |-> 0, missing |-> 0])],
                      Tail(rest))
    IN  Walk([gaps |-> EmptyMap, coverage |-> EmptyMap], frameworks)

\* the body of the inner loop for one requirement and one framework
CountRequirement(acc, req, framework, implemented) ==
    LET c == MapGet(acc.coverage, framework)
    IN  IF ~HasComplianceRefs(req, Given(framework)) THEN acc
        ELSE IF SetHas(implemented, req.id)
        THEN [acc EXCEPT !.coverage = MapSet(@, framework,
                 [c EXCEPT !.total = @ + 1, !.implemented = @ + 1])]
        ELSE [gaps |-> MapSet(acc.gaps, framework,
                          Append(MapGet(acc.gaps, framework),
                                 [requirement_id |-> req.id,
                                  category |-> req.category,
                                  description |-> req.description,
                                  compliance_references |->
                                      ComplianceRefs(req, Given(framework))[1],
                                  priority |-> calculateGapPriority(req, framework)])),
              coverage |-> MapSet(acc.coverage, framework,
                              [c EXCEPT !.total = @ + 1, !.missing = @ + 1])]

\* the loops over the categories, their requirements and, for each
\* requirement at the target level, the frameworks as they were passed
CountRequirements(start, entries, frameworks, targetLevel, implemented) ==
    LET RECURSIVE OverFrameworks(_, _, _)
        OverFrameworks(acc, req, rest) ==
            IF rest = <<>> THEN acc
            ELSE OverFrameworks(CountRequirement(acc, req, Head(rest), implemented),
                                req, Tail(rest))
        RECURSIVE Walk(_, _)
        Walk(acc, rest) ==
            IF rest = <<>> THEN acc
            ELSE IF ~Includes(Head(rest).requirement.level, targetLevel)
            THEN Walk(acc, Tail(rest))
            ELSE Walk(OverFrameworks(acc, Head(rest).requirement, frameworks), Tail(rest))
    IN  Walk(start, entries)

\* the last loop over the frameworks: each gap list sorted in place
SortAllGaps(gaps, frameworks) ==
    LET RECURSIVE Walk(_, _)
        Walk(acc, rest) ==
            IF rest = <<>> THEN acc
            ELSE Walk(MapSet(acc, Head(rest), SortGaps(MapGet(acc, Head(rest)))), Tail(rest))
    IN  Walk(gaps, frameworks)

\* FRAMEWORK_MAP[f] || f
FrameworkName(f) == IF f \in DOMAIN FRAMEWORK_MAP THEN FRAMEWORK_MAP[f] ELSE f

getComplianceGapAnalysis(data, args) ==
    IF args.frameworks = Undefined
    THEN Thrown(<<"f","r","a","m","e","w","o","r","k","s"," ","i","s"," ","n","o","t"," ","i","t","e","r","a","b","l","e">>)
    ELSE LET frameworks == args.frameworks[1]
             implemented == SetOf(OrDefault(args.implemented_requirements, <<>>))
             counted == CountRequirements(InitialAnalysis(frameworks), RequirementsOf(data),
                                          frameworks, args.target_level, implemented)
             coverage == counted.coverage
         IN  textResponse(
                 [target_level |-> <<"L">> \o LevelText(args.target_level),
                  frameworks_analyzed |->
                      [i \in DOMAIN frameworks |-> FrameworkName(frameworks[i])],
                  coverage_summary |->
                      [i \in DOMAIN coverage |->
                          [framework |-> FrameworkName(coverage[i].key),
                           framework_key |-> coverage[i].key,
                           total_requirements |-> coverage[i].value.total,
                           implemented |-> coverage[i].value.implemented,
                           missing |-> coverage[i].value.missing,
                           coverage_percentage |->
                               CoveragePercentage(coverage[i].value.implemented,
                                                  coverage[i].value.total)]],
                  gaps |-> SortAllGaps(counted.gaps, frameworks)])

(***************************************************************************)
(* mapRequirementToCompliance (index.ts 1480-1521)                         *)
(***************************************************************************)
\* a plausible slip: every framework of the compliance object mapped, its
\* list empty or not
MappedFrameworksWhenPresent(req) == DOMAIN req.compliance

\* the keys of Object.entries(req.compliance) that pass refs && refs.length > 0
MappedFrameworks(req) == {f \in DOMAIN req.compliance : Len(req.compliance[f]) > 0}

\* totalMappings: the lengths of the mapped lists added up
RECURSIVE TotalMappings(_, _)
TotalMappings(req, frameworks) ==
    IF frameworks = {} THEN 0
    ELSE LET f == CHOOSE g \in frameworks : TRUE
         IN  Len(req.compliance[f]) + TotalMappings(req, frameworks \ {f})

\* complianceMapping: the lists under the display names of their frameworks
ComplianceMapping(req) ==
    [name \in {FrameworkName(f) : f \in MappedFrameworks(req)} |->
        req.compliance[CHOOSE f \in MappedFrameworks(req) : FrameworkName(f) = name]]

mapRequirementToCompliance(index, args) ==
    IF args.requirement_id = Undefined
    THEN Thrown(<<"T","y","p","e","E","r","r","o","r",":"," ","C","a","n","n","o","t"," ","r","e","a","d"," ","p","r","o","p","e","r","t","i","e","s"," ","o","f"," ","u","n","d","e","f","i","n","e","d"," ","(","r","e","a","d","i","n","g"," ","'","l","e","n","g","t","h","'",")">>)
    ELSE LET reqId == args.requirement_id[1]
         IN  IF Len(reqId) > MAX_ID_LENGTH THEN createErrorResponse(IdTooLongMessage)
             ELSE IF ~MapHas(index, reqId)
             THEN createErrorResponse(<<"R","e","q","u","i","r","e","m","e","n","t"," ","'">> \o reqId \o <<"'"," ","n","o","t"," ","f","o","u","n","d",".">>)
             ELSE LET req == MapGet(index, reqId).requirement
                      totalMappings == TotalMappings(req, MappedFrameworks(req))
                  IN  textResponse(
                          [requirement |->
                               [id |-> req.id, category |-> req.category,
                                description |-> req.description,
                                level |-> [i \in DOMAIN req.level |->
                                              <<"L">> \o NumberToString(req.level[i])]],
                           compliance_mappings |-> ComplianceMapping(req),
                           total_framework_mappings |->
                               Cardinality(DOMAIN ComplianceMapping(req)),
                           total_control_references |-> totalMappings,
                           compliance_impact |->
                               IF totalMappings > 0
                               THEN <<"I","m","p","l","e","m","e","n","t","i","n","g"," ","t","h","i","s"," ","r","e","q","u","i","r","e","m","e","n","t"," ","h","e","l","p","s"," ","s","a","t","i","s","f","y"," ","m","u","l","t","i","p","l","e"," ","c","o","m","p","l","i","a","n","c","e"," ","f","r","a","m","e","w","o","r","k","s">>
                               ELSE <<"N","o"," ","d","i","r","e","c","t"," ","c","o","m","p","l","i","a","n","c","e"," ","m","a","p","p","i","n","g","s"," ","i","d","e","n","t","i","f","i","e","d">>])

(***************************************************************************)
(* Datasets for the query operations: requirements that differ in their    *)
(* levels and compliance references, in categories whose names do and do   *)
(* not hold a high-priority name and whose keys contain one another.       *)
(***************************************************************************)
\* levels 1 and 2; PCI references, an empty HIPAA list, the rest absent
ReqA ==
    [id |-> <<"1",".","1",".","1">>, subcategory |-> <<"T","r","a","n","s","p","o","r","t">>,
     description |-> <<"V","e","r","i","f","y"," ","T","L","S"," ","f","o","r"," ","a","l","l"," ","c","l","i","e","n","t","s">>,
     level |-> <<1, 2>>, cwe |-> <<Str(<<"C","W","E","-","3","1","9">>)>>, nist |-> <<>>,
     compliance |-> [pci_dss |-> << <<"4",".","1">> >>, hipaa |-> <<>>]]
\* level 3 only; no compliance object, as parseASVSData leaves it
ReqB ==
    [id |-> <<"1",".","1",".","2">>, subcategory |-> <<"A","u","d","i","t">>,
     description |-> <<"L","o","g"," ","e","v","e","r","y"," ","a","d","m","i","n"," ","a","c","c","e","s","s">>,
     level |-> <<3>>, cwe |-> <<>>, nist |-> <<>>,
     compliance |-> <<>>]
\* levels 2 and 3; references for three frameworks
ReqC ==
    [id |-> <<"2",".","1",".","1">>, subcategory |-> <<"P","a","s","s","w","o","r","d">>,
     description |-> <<"V","e","r","i","f","y"," ","p","a","s","s","w","o","r","d"," ","l","e","n","g","t","h">>,
     level |-> <<2, 3>>, cwe |-> <<Str(<<"C","W","E","-","5","2","1">>)>>, nist |-> <<>>,
     compliance |-> [pci_dss |-> << <<"8",".","2",".","3">>, <<"8",".","2",".","4">> >>,
                     hipaa |-> << <<"1","6","4",".","3","0","8","(","a",")","(","5",")">> >>,
                     gdpr |-> << <<"A","r","t","i","c","l","e"," ","3","2">> >>,
                     sox |-> <<>>,
                     iso27001 |-> <<>>]]
\* every level; every framework with an empty list
ReqD ==
    [id |-> <<"2",".","1",".","2">>, subcategory |-> <<"S","e","s","s","i","o","n">>,
     description |-> <<"V","e","r","i","f","y"," ","s","e","s","s","i","o","n"," ","t","o","k","e","n","s",","," ","l","o","g"," ","m","i","s","u","s","e">>,
     level |-> <<1, 2, 3>>, cwe |-> <<>>, nist |-> <<>>,
     compliance |-> NoCompliance]
\* the id of ReqA once more, with another text and level
ReqA2 ==
    [id |-> <<"1",".","1",".","1">>, subcategory |-> <<"A","u","d","i","t">>,
     description |-> <<"L","o","g"," ","f","a","i","l","e","d"," ","l","o","g","i","n","s">>,
     level |-> <<2>>, cwe |-> <<>>, nist |-> <<>>,
     compliance |-> [hipaa |-> << <<"1","6","4",".","3","1","2","(","b",")">> >>]]
\* an id beyond the length that get_requirement_details accepts
ReqE ==
    [id |-> Xs(MAX_ID_LENGTH + 1), subcategory |-> <<>>,
     description |-> <<"R","o","t","a","t","e"," ","k","e","y","s">>,
     level |-> <<1>>, cwe |-> <<>>, nist |-> <<>>,
     compliance |-> <<>>]

\* level 3 only; a PCI reference that is not critical, a HIPAA one that is
ReqF ==
    [id |-> <<"3",".","1",".","1">>, subcategory |-> <<"E","r","r","o","r","s">>,
     description |-> <<"H","a","n","d","l","e"," ","e","v","e","r","y"," ","e","r","r","o","r">>,
     level |-> <<3>>, cwe |-> <<>>, nist |-> <<>>,
     compliance |-> [pci_dss |-> << <<"6",".","5">> >>, hipaa |-> << <<"1","6","4",".","3","1","2","(","a",")","(","1",")">> >>]]
\* levels 2 and 3; a PCI reference that is not critical
ReqG ==
    [id |-> <<"3",".","1",".","2">>, subcategory |-> <<"E","r","r","o","r","s">>,
     description |-> <<"K","e","e","p"," ","a","u","d","i","t"," ","t","r","a","i","l","s">>,
     level |-> <<2, 3>>, cwe |-> <<>>, nist |-> <<>>,
     compliance |-> [pci_dss |-> << <<"1","0",".","1">> >>]]
\* levels 1 and 3; PCI references that are not critical
ReqH ==
    [id |-> <<"3",".","1",".","3">>, subcategory |-> <<"E","r","r","o","r","s">>,
     description |-> <<"H","i","d","e"," ","s","t","a","c","k"," ","t","r","a","c","e","s">>,
     level |-> <<1, 3>>, cwe |-> <<>>, nist |-> <<>>,
     compliance |-> [pci_dss |-> << <<"6",".","5",".","1">>, <<"6",".","5",".","5">> >>, gdpr |-> <<>>]]

ShellAuthn == [id |-> <<"V","2">>, name |-> <<"A","u","t","h","e","n","t","i","c","a","t","i","o","n">>]
ShellLogging == [id |-> <<"V","7">>, name |-> <<"E","r","r","o","r"," ","L","o","g","g","i","n","g">>]
\* the name of ShellV10 in capitals
ShellV11 == [id |-> <<"V","1","1">>, name |-> <<"A","C","C","E","S","S">>]
\* a name that holds a compliance-high-priority name without being one
ShellComm == [id |-> <<"V","9">>, name |-> <<"S","e","c","u","r","e"," ","C","o","m","m","u","n","i","c","a","t","i","o","n">>]

QueryDatasets ==
    { <<>>,
      <<MakeCategory(ShellV1, <<ReqA, ReqB>>), MakeCategory(ShellV10, <<ReqC>>)>>,
      <<MakeCategory(ShellLogging, <<ReqC, ReqA>>), MakeCategory(ShellAuthn, <<ReqB, ReqD>>)>>,
      <<MakeCategory(ShellV10, <<ReqD, ReqA>>), MakeCategory(ShellAuthn, <<ReqC, ReqA2>>)>>,
      <<MakeCategory(ShellAuthn, <<ReqA, ReqA2, ReqB>>)>>,
      <<MakeCategory(ShellV10, <<ReqA>>), MakeCategory(ShellV11, <<ReqC>>)>>,
      <<MakeCategory(ShellLogging, <<ReqB, ReqE>>)>>,
      <<MakeCategory(ShellLogging, <<ReqF, ReqG, ReqC, ReqH>>)>>,
      <<MakeCategory(ShellComm, <<ReqF, ReqH>>), MakeCategory(ShellLogging, <<ReqG>>)>> }

\* the largest level argument, and the largest current level, a caller sends
MaxLevelArg == 4
MaxCurrentLevel == 2

\* the level arguments a caller sends: none, 0, the three levels, and beyond
QLevelArgs == {Undefined} \cup {Given(l) : l \in 0 .. MaxLevelArg}

\* offset and limit (in halves): absent, or a second page of one item
QPageArgs == {<<Undefined, Undefined>>, <<Given(2), Given(2)>>, <<Undefined, Given(2)>>}

\* category arguments: none; names and ids in other case; an input that only
\* a partial match resolves; one that holds a key; one that matches nothing;
\* one that the ids of every category hold; the empty string; one beyond
\* the length limit
QCategoryArgs ==
    {Undefined} \cup
    {Given(c) : c \in {<<"a","c","c","e","s","s">>, <<"A","C","C","E","S","S"," ","C","O","N","T","R","O","L">>, <<"v","1">>, <<"V","1","0">>, <<"a","u","t","h","e","n","t","i","c","a","t","i","o","n">>,
                       <<"C","o","n","t","r","o","l">>, <<"E","r","r","o","r"," ","L","o","g","g","i","n","g"," ","a","n","d"," ","m","o","r","e">>, <<"C","r","y","p","t","o">>, <<"V">>, <<>>,
                       Xs(MAX_CATEGORY_LENGTH + 1)}}

\* requirement ids: none; ids of the fixtures; an unknown id; the empty
\* string; one beyond the length limit
QIdArgs ==
    {Undefined} \cup
    {Given(i) : i \in {<<"1",".","1",".","1">>, <<"1",".","1",".","2">>, <<"2",".","1",".","1">>, <<"2",".","1",".","2">>, <<"3",".","1",".","3">>, <<"9",".","9",".","9">>, <<>>,
                       Xs(MAX_ID_LENGTH), Xs(MAX_ID_LENGTH + 1)}}

\* queries: none; one word; two words of which the second alone matches;
\* words of several requirements; a weakness number; an id (no piece of it
\* long enough); too short; empty; separators only; beyond the length limit
QQueryArgs ==
    {Undefined} \cup
    {Given(q) : q \in {<<"T","L","S">>, <<"z","z","z"," ","p","a","s","s","w","o","r","d">>, <<"l","o","g",","," ","v","e","r","i","f","y","!">>, <<"3","1","9">>, <<"1",".","1",".","1">>,
                       <<"a","u","t","h","e","n","t","i","c","a","t","i","o","n"," ","a","c","c","e","s","s">>, <<"a","b">>, <<>>, <<" ","-","-"," ">>,
                       Xs(MAX_QUERY_LENGTH + 1)}}

\* current levels: none, and 0 upwards
QCurrentLevelArgs == {Undefined} \cup {Given(l) : l \in 0 .. MaxCurrentLevel}

\* focus areas: none; an empty list; a word of one name in other case; one
\* word that is in no name beside one that is; a word in no name
QFocusArgs ==
    {Undefined, Given(<<>>), Given(<< <<"A","C","C","E","S","S">> >>),
     Given(<< <<"c","r","y","p","t","o">>, <<"l","o","g","g","i","n","g">> >>), Given(<< <<"c","r","y","p","t","o">> >>)}

\* framework keys: none; the five of the tool's schema; one outside them
QFrameworkArgs ==
    {Undefined} \cup {Given(f) : f \in DOMAIN FRAMEWORK_MAP \cup {"nist"}}

\* framework lists: none; empty; one key; two keys; one key twice; a key
\* outside the schema
QFrameworksArgs ==
    {Undefined, Given(<<>>), Given(<<"pci_dss">>), Given(<<"hipaa", "pci_dss">>),
     Given(<<"pci_dss", "pci_dss">>), Given(<<"nist">>)}

\* implemented requirements: none; an empty list; two ids of the fixtures;
\* an id twice beside an unknown one
QImplementedArgs ==
    {Undefined, Given(<<>>), Given(<< <<"2",".","1",".","1">>, <<"3",".","1",".","1">> >>),
     Given(<< <<"1",".","1",".","1">>, <<"9",".","9",".","9">>, <<"1",".","1",".","1">> >>)}

(***************************************************************************)
(* A specification of the query operations: the dataset is loaded and      *)
(* indexed, and a tool is called. The methods write no field of the        *)
(* server, so the call that follows finds the state of the first.          *)
(***************************************************************************)
QInit ==
    /\ PgIdle
    /\ RlIdle
    /\ QIdle
    /\ FnIdle
    /\ WkIdle
    /\ CreIdle
    /\ asvsData \in QueryDatasets
    /\ requirementIndex = buildRequirementIndex(asvsData)
    /\ categoryIndex = buildCategoryIndex(asvsData)
    /\ searchIndex = buildSearchIndex(asvsData)
    /\ indexBuilds = 1
    /\ dataLoaded = TRUE
    /\ hipaaLoaded = FALSE
    /\ dataSource = "local"
    /\ hipaaData = <<>>
    /\ asvsToHipaaIndex = EmptyMap
    /\ localFile = "ok"
    /\ hipaaFile = "unusable"
    /\ calls = <<>>
    /\ microtasks = <<>>
    /\ loadRuns = 1

\* one tool call on the loaded server: the methods only read the dataset
\* and the indexes
Answer(tool, args, out) ==
    /\ qOut = <<>>
    /\ qTool' = tool
    /\ qArgs' = args
    /\ qOut' = <<out>>
    /\ UNCHANGED <<pgVars, dataVars, indexBuilds, rlVars, srvVars, fnVars, wkVars, creVars>>

CallByLevel ==
    \E level \in QLevelArgs, page \in QPageArgs :
        LET args == [NoArgs EXCEPT !.level = level, !.offset = page[1], !.limit = page[2]]
        IN  Answer("get_requirements_by_level", args, getRequirementsByLevel(asvsData, args))

CallByCategory ==
    \E category \in QCategoryArgs, level \in QLevelArgs, page \in QPageArgs :
        LET args == [NoArgs EXCEPT !.category = category, !.level = level,
                                   !.offset = page[1], !.limit = page[2]]
        IN  Answer("get_requirements_by_category", args,
                   getRequirementsByCategory(asvsData, categoryIndex, args))

CallDetails ==
    \E id \in QIdArgs :
        LET args == [NoArgs EXCEPT !.requirement_id = id]
        IN  Answer("get_requirement_details", args,
                   getRequirementDetails(requirementIndex, args))

CallSearch ==
    \E query \in QQueryArgs, level \in QLevelArgs, page \in QPageArgs :
        LET args == [NoArgs EXCEPT !.query = query, !.level = level,
                                   !.offset = page[1], !.limit = page[2]]
        IN  Answer("search_requirements", args,
                   searchRequirements(requirementIndex, searchIndex, args))

CallRecommend ==
    \E target \in QLevelArgs, current \in QCurrentLevelArgs, focus \in QFocusArgs,
       page \in QPageArgs :
        LET args == [NoArgs EXCEPT !.target_level = target, !.current_level = current,
                                   !.focus_areas = focus,
                                   !.offset = page[1], !.limit = page[2]]
        IN  Answer("recommend_priority_controls", args,
                   recommendPriorityControls(asvsData, args))

CallCompliance ==
    \E framework \in QFrameworkArgs, level \in QLevelArgs, page \in QPageArgs :
        LET args == [NoArgs EXCEPT !.framework = framework, !.level = level,
                                   !.offset = page[1], !.limit = page[2]]
        IN  Answer("get_compliance_requirements", args,
                   getComplianceRequirements(asvsData, args))

CallGapAnalysis ==
    \E frameworks \in QFrameworksArgs, target \in QLevelArgs,
       implemented \in QImplementedArgs :
        LET args == [NoArgs EXCEPT !.frameworks = frameworks, !.target_level = target,
                                   !.implemented_requirements = implemented]
        IN  Answer("get_compliance_gap_analysis", args,
                   getComplianceGapAnalysis(asvsData, args))

CallMapCompliance ==
    \E id \in QIdArgs :
        LET args == [NoArgs EXCEPT !.requirement_id = id]
        IN  Answer("map_requirement_to_compliance", args,
                   mapRequirementToCompliance(requirementIndex, args))

QNext ==
    \/ CallByLevel
    \/ CallByCategory
    \/ CallDetails
    \/ CallSearch
    \/ CallRecommend
    \/ CallCompliance
    \/ CallGapAnalysis
    \/ CallMapCompliance

SpecQuery == QInit /\ [][QNext]_vars

(***************************************************************************)
(* A specification of the two pure computations of the gap analysis: the   *)
(* coverage percentage of a pair of counts, and calculateGapPriority of a  *)
(* requirement and a framework key.                                        *)
(***************************************************************************)
\* the largest number of applicable requirements of one framework
MaxTotal == 40

\* the counts that the loops of getComplianceGapAnalysis can leave in
\* coverage[f]: implemented never exceeds total
CoverageInputs ==
    {c \in [fn : {"coverage_percentage"}, implemented : 0 .. MaxTotal, total : 0 .. MaxTotal] :
        c.implemented <= c.total}

\* the requirements of the fixtures, each in every category of the fixtures
PriorityRequirements ==
    {MakeRequirement(body, shell.name) :
        body \in {ReqA, ReqA2, ReqB, ReqC, ReqD, ReqF, ReqG, ReqH},
        shell \in {ShellV1, ShellV10, ShellV11, ShellAuthn, ShellLogging, ShellComm}}

PriorityInputs ==
    {[fn |-> "calculateGapPriority", req |-> req, framework |-> f] :
        req \in PriorityRequirements, f \in DOMAIN FRAMEWORK_MAP \cup {"nist"}}

FnInit ==
    /\ PgIdle
    /\ DataIdle
    /\ RlIdle
    /\ SrvIdle
    /\ QIdle
    /\ WkIdle
    /\ CreIdle
    /\ fnIn \in CoverageInputs \cup PriorityInputs
    /\ fnOut = <<>>

\* coverage[f].total > 0 ? Math.round((implemented / total) * 100) : 0
ApplyCoverage ==
    /\ fnOut = <<>>
    /\ fnIn.fn = "coverage_percentage"
    /\ fnOut' = <<CoveragePercentage(fnIn.implemented, fnIn.total)>>
    /\ UNCHANGED <<fnIn, pgVars, dataVars, indexBuilds, rlVars, srvVars, qVars, wkVars, creVars>>

\* one call of calculateGapPriority
ApplyPriority ==
    /\ fnOut = <<>>
    /\ fnIn.fn = "calculateGapPriority"
    /\ fnOut' = <<calculateGapPriority(fnIn.req, fnIn.framework)>>
    /\ UNCHANGED <<fnIn, pgVars, dataVars, indexBuilds, rlVars, srvVars, qVars, wkVars, creVars>>

FnNext ==
    \/ ApplyCoverage
    \/ ApplyPriority

SpecFn == FnInit /\ [][FnNext]_vars

(***************************************************************************)
(* A caller that walks the pages of a list: it calls applyPagination with  *)
(* offset 0 and a limit it keeps, and while the page says hasMore it calls *)
(* again with the offset advanced by the page's returned.                  *)
(***************************************************************************)
WkInit ==
    /\ DataIdle
    /\ RlIdle
    /\ SrvIdle
    /\ QIdle
    /\ FnIdle
    /\ CreIdle
    /\ pgItems \in {[i \in 1 .. n |-> i] : n \in PgLengths}
    /\ pgOffset = Given(FromInt(0))
    /\ pgLimit \in PgArgs
    /\ pgOut = NoResult
    /\ wkPages = <<>>

\* the walk has got a page that says there is no more
WalkDone == pgOut # NoResult /\ ~pgOut[1].pagination.hasMore

\* the next call of applyPagination of the walk
WalkStep ==
    /\ ~WalkDone
    /\ LET page == applyPagination(pgItems, pgOffset, pgLimit)
       IN  /\ pgOut' = <<page>>
           /\ wkPages' = Append(wkPages, page.items)
           /\ pgOffset' = Given(pgOffset[1] + FromInt(page.pagination.returned))
    /\ UNCHANGED <<pgItems, pgLimit>>
    /\ UNCHANGED <<dataVars, indexBuilds, rlVars, srvVars, qVars, fnVars, creVars>>

WkNext == WalkStep

\* the caller goes on while there is more
SpecWalk == WkInit /\ [][WkNext]_vars /\ WF_vars(WalkStep)

(***************************************************************************)
(* OpenCREClient: getISO27001Mappings, fetchASVSRequirement, fetchCRE,     *)
(* fetchWithRateLimit and the cache.  Several calls of                     *)
(* getISO27001Mappings of one client are in progress at once; each runs    *)
(* from one await to the next in one step.                                 *)
(***************************************************************************)
minRequestInterval == 100
CACHE_TTL == 86400000

\* most calls of getISO27001Mappings of one client
MaxCreCalls == 2
\* most advances of the clock
MaxCreTicks == 4

\* the clock advances by half the interval; Date.now() at construction
TickMs == minRequestInterval \div 2
CreStart == 10 * minRequestInterval

\* what the service holds: the ASVS standards with their links, and the CREs
OpenCREStandards ==
    << [sectionID |-> <<"1",".","1",".","1">>,
        links |-> << [doctype |-> "CRE", id |-> Given(<<"6","1","6","-","3","0","5">>)],
                     [doctype |-> "Standard", id |-> Undefined],
                     [doctype |-> "CRE", id |-> Given(<<"0","0","2","-","6","3","0">>)] >>],
       [sectionID |-> <<"1",".","1",".","2">>,
        links |-> << [doctype |-> "CRE", id |-> Given(<<"0","0","2","-","6","3","0">>)] >>],
       [sectionID |-> <<"1",".","1",".","3">>,
        links |-> << [doctype |-> "CRE", id |-> Undefined] >>] >>

\* the requirement ids a call asks for
CreAsvsIds == {<<"1",".","1",".","1">>, <<"1",".","1",".","2">>, <<"1",".","1",".","3">>, <<"9",".","9",".","9">>}

\* what comes back for a request: a response that is ok, or a failure
\* (a status that is not ok, a network error, the abort after the timeout)
CreOutcomes == {"ok", "failed"}

\* getFromCache: the data and the cache afterwards; null is <<>>
getFromCache(c, key) ==
    IF ~MapHas(c, key)
    THEN [data |-> <<>>, cache |-> c]
    ELSE LET cached == MapGet(c, key)
         IN  IF creClock - cached.timestamp > CACHE_TTL
             THEN [data |-> <<>>,
                   cache |-> SelectSeq(c, LAMBDA e : e.key # key)]
             ELSE [data |-> <<cached.data>>, cache |-> c]

setCache(c, key, data) == MapSet(c, key, [data |-> data, timestamp |-> creClock])

\* fetchWithRateLimit up to its first await: the call sleeps, or it has
\* written lastRequestTime and started the request
fetchWithRateLimit(call) ==
    LET dateNow == creClock
        timeSinceLastRequest == dateNow - lastRequestTime
    IN  IF timeSinceLastRequest < minRequestInterval
        THEN [call |-> [call EXCEPT !.pc = "sleeping",
                                    !.wake = dateNow + (minRequestInterval - timeSinceLastRequest)],
              lastRequestTime |-> lastRequestTime,
              creRequests |-> creRequests]
        ELSE [call |-> [call EXCEPT !.pc = "fetching"],
              lastRequestTime |-> dateNow,
              creRequests |-> Append(creRequests, dateNow)]

\* the links of a requirement that lead to a CRE
CreLinksOf(requirement) == SelectSeq(requirement.links, LAMBDA link : link.doctype = "CRE")

CreInit ==
    /\ PgIdle
    /\ DataIdle
    /\ RlIdle
    /\ SrvIdle
    /\ QIdle
    /\ FnIdle
    /\ WkIdle
    /\ creClock = CreStart
    /\ lastRequestTime = 0
    /\ creCalls = <<>>
    /\ creRequests = <<>>
    /\ cache = <<>>

CreOthers == <<pgVars, dataVars, indexBuilds, rlVars, srvVars, qVars, fnVars, wkVars>>

\* what a step of call c leaves: the call, lastRequestTime and the requests
CreLeaves(c, after) ==
    /\ creCalls' = [creCalls EXCEPT ![c] = after.call]
    /\ lastRequestTime' = after.lastRequestTime
    /\ creRequests' = after.creRequests

\* a call of getISO27001Mappings begins: fetchASVSRequirement looks into the
\* cache and, without a hit, goes into fetchWithRateLimit
GetISO27001Mappings(asvsId) ==
    /\ Len(creCalls) < MaxCreCalls
    /\ LET cacheKey == <<"a","s","v","s",":">> \o asvsId
           cached == getFromCache(cache, cacheKey)
           call == [asvsId |-> asvsId, pc |-> "loop", stage |-> "asvs",
                    cacheKey |-> cacheKey, wake |-> 0, creLinks |-> <<>>]
       IN  /\ cache' = cached.cache
           /\ IF cached.data # <<>>
              THEN /\ creCalls' = Append(creCalls,
                          [call EXCEPT !.creLinks = CreLinksOf(cached.data[1])])
                   /\ UNCHANGED <<lastRequestTime, creRequests>>
              ELSE LET after == fetchWithRateLimit(call)
                   IN  /\ creCalls' = Append(creCalls, after.call)
                       /\ lastRequestTime' = after.lastRequestTime
                       /\ creRequests' = after.creRequests
    /\ UNCHANGED creClock
    /\ UNCHANGED CreOthers

\* the timer of a sleeping call fires: lastRequestTime is written and the
\* request starts
TimerFires(c) ==
    /\ creCalls[c].pc = "sleeping"
    /\ creClock >= creCalls[c].wake
    /\ creCalls' = [creCalls EXCEPT ![c].pc = "fetching"]
    /\ lastRequestTime' = creClock
    /\ creRequests' = Append(creRequests, creClock)
    /\ UNCHANGED <<creClock, cache>>
    /\ UNCHANGED CreOthers

\* the request of a call comes back
ResponseArrives(c, outcome) ==
    /\ creCalls[c].pc = "fetching"
    /\ LET call == creCalls[c]
           found == SelectSeq(OpenCREStandards, LAMBDA std : std.sectionID = call.asvsId)
       IN  IF call.stage = "asvs"
           THEN IF outcome = "ok" /\ found # <<>>
                THEN /\ cache' = setCache(cache, call.cacheKey, found[1])
                     /\ creCalls' = [creCalls EXCEPT ![c].pc = "loop",
                                                    ![c].creLinks = CreLinksOf(found[1])]
                ELSE /\ creCalls' = [creCalls EXCEPT ![c].pc = "done"]
                     /\ UNCHANGED cache
           ELSE /\ cache' = IF outcome = "ok"
                            THEN setCache(cache, call.cacheKey, Head(call.creLinks).id[1])
                            ELSE cache
                /\ creCalls' = [creCalls EXCEPT ![c].pc = "loop",
                                               ![c].creLinks = Tail(call.creLinks)]
    /\ UNCHANGED <<creClock, lastRequestTime, creRequests>>
    /\ UNCHANGED CreOthers

\* the loop over the CRE links goes on: the call returns, skips a link
\* without an id, takes a CRE from the cache, or goes into fetchWithRateLimit
NextLink(c) ==
    /\ creCalls[c].pc = "loop"
    /\ LET call == creCalls[c]
       IN  IF call.creLinks = <<>>
           THEN /\ creCalls' = [creCalls EXCEPT ![c].pc = "done"]
                /\ UNCHANGED <<lastRequestTime, creRequests, cache>>
           ELSE LET creLink == Head(call.creLinks)
                IN  IF creLink.id = Undefined
                    THEN /\ creCalls' = [creCalls EXCEPT ![c].creLinks = Tail(call.creLinks)]
                         /\ UNCHANGED <<lastRequestTime, creRequests, cache>>
                    ELSE LET cacheKey == <<"c","r","e",":">> \o creLink.id[1]
                             cached == getFromCache(cache, cacheKey)
                         IN  /\ cache' = cached.cache
                             /\ IF cached.data # <<>>
                                THEN /\ creCalls' = [creCalls EXCEPT
                                                        ![c].creLinks = Tail(call.creLinks)]
                                     /\ UNCHANGED <<lastRequestTime, creRequests>>
                                ELSE CreLeaves(c, fetchWithRateLimit(
                                         [call EXCEPT !.stage = "cre",
                                                      !.cacheKey = cacheKey]))
    /\ UNCHANGED creClock
    /\ UNCHANGED CreOthers

\* time passes
CreTick ==
    /\ creClock < CreStart + MaxCreTicks * TickMs
    /\ creClock' = creClock + TickMs
    /\ UNCHANGED <<lastRequestTime, creCalls, creRequests, cache>>
    /\ UNCHANGED CreOthers

CreNext ==
    \/ \E asvsId \in CreAsvsIds : GetISO27001Mappings(asvsId)
    \/ \E c \in DOMAIN creCalls : TimerFires(c)
    \/ \E c \in DOMAIN creCalls, outcome \in CreOutcomes : ResponseArrives(c, outcome)
    \/ \E c \in DOMAIN creCalls : NextLink(c)
    \/ CreTick

SpecCRE == CreInit /\ [][CreNext]_vars

(***************************************************************************)
(* Claims about the query operations                                       *)
(***************************************************************************)
\* the answer to the query under test
QOut == qOut[1]
Called(tool) == qTool = tool /\ qOut # <<>>

\* the elements of seq at the positions in P, each once, in the order of seq
AtPositions(seq, P) ==
    [i \in 1 .. Cardinality(P) |->
        seq[CHOOSE j \in P : Cardinality({k \in P : k < j}) = i - 1]]

\* the requirements of the dataset at the positions in P, in dataset order
RequirementsAt(P) ==
    LET chosen == AtPositions(RequirementsOf(asvsData), P)
    IN  [i \in DOMAIN chosen |-> chosen[i].requirement]

\* the page of a list that the caller's offset and limit select
PageOf(list) == applyPagination(list, qArgs.offset, qArgs.limit).items

\* C11: for a level of 1, 2 or 3, get_requirements_by_level returns, before
\* pagination, exactly the requirements whose level list contains that
\* level, each once, in dataset order.
C11_ByLevelExact ==
    (Called("get_requirements_by_level") /\ Includes(<<1, 2, 3>>, qArgs.level)) =>
        LET all == RequirementsOf(asvsData)
            expected == RequirementsAt({j \in DOMAIN all :
                            qArgs.level[1] \in Range(all[j].requirement.level)})
        IN  /\ QOut.kind = "result"
            /\ QOut.data.total = Len(expected)
            /\ QOut.data.requirements = PageOf(expected)

\* level 2 asked of a dataset that holds a requirement at levels 1 and 2 and
\* one at level 3 only: the first is returned, the second is not
C11_Witness ==
    /\ Called("get_requirements_by_level")
    /\ qArgs.level = Given(2)
    /\ qArgs.offset = Undefined /\ qArgs.limit = Undefined
    /\ QOut.kind = "result"
    /\ \E i \in DOMAIN QOut.data.requirements :
          QOut.data.requirements[i].level = <<1, 2>>
    /\ \E e \in Range(RequirementsOf(asvsData)) :
          /\ e.requirement.level = <<3>>
          /\ e.requirement \notin Range(QOut.data.requirements)

\* the keys of the category index are the lower-cased names and ids
CategoryKeys(c) == {toLowerCase(asvsData[c].name), toLowerCase(asvsData[c].id)}

\* names and ids of the categories are pairwise distinct ignoring case
DistinctCategoryKeys ==
    /\ \A c \in DOMAIN asvsData : toLowerCase(asvsData[c].name) # toLowerCase(asvsData[c].id)
    /\ \A c, d \in DOMAIN asvsData : c # d => CategoryKeys(c) \cap CategoryKeys(d) = {}

\* the key of the category index at position i holds s or is held by it
PartiallyMatches(i, s) ==
    StringIncludes(categoryIndex[i].key, s) \/ StringIncludes(s, categoryIndex[i].key)

\* C14: an input that equals, ignoring case, the name or the id of a
\* category C resolves to exactly C, whatever other keys contain the input
\* or are contained in it, provided names and ids are pairwise distinct
\* ignoring case.
C14_ExactMatchFirst ==
    (Called("get_requirements_by_category") /\ qArgs.category # Undefined
        /\ DistinctCategoryKeys) =>
        \A c \in DOMAIN asvsData :
            toLowerCase(qArgs.category[1]) \in CategoryKeys(c) =>
                /\ QOut.kind = "result"
                /\ QOut.data.category = asvsData[c].name
                /\ QOut.data.id = asvsData[c].id
                /\ QOut.data.total =
                       Cardinality({r \in DOMAIN asvsData[c].requirements :
                           Truthy(qArgs.level) =>
                               qArgs.level[1] \in Range(asvsData[c].requirements[r].level)})

\* the input is the name of a category, and a key of another category that
\* holds the input stands before it in the index
C14_Witness ==
    /\ Called("get_requirements_by_category") /\ qArgs.category # Undefined
    /\ DistinctCategoryKeys
    /\ QOut.kind = "result"
    /\ toLowerCase(qArgs.category[1]) = toLowerCase(QOut.data.category)
    /\ \E i, j \in DOMAIN categoryIndex :
          /\ i < j
          /\ categoryIndex[j].key = toLowerCase(qArgs.category[1])
          /\ PartiallyMatches(i, toLowerCase(qArgs.category[1]))
          /\ categoryIndex[i].value.id # QOut.data.id

\* C15: when the name given to get_requirements_by_category matches no
\* category, the message of the error holds no name of a category of the
\* dataset.
C15_NotFoundHidesCategoryNames ==
    (Called("get_requirements_by_category") /\ qArgs.category # Undefined
        /\ Len(qArgs.category[1]) <= MAX_CATEGORY_LENGTH
        /\ QOut.kind = "error") =>
        \A c \in DOMAIN asvsData : ~StringIncludes(QOut.message, asvsData[c].name)

\* C16: get_requirement_details answers an id beyond the maximum length
\* with the length error, whether or not the index holds it; otherwise an
\* indexed id with the success record of its index entry, and an id that is
\* not indexed with a not-found error that names it; the dataset and the
\* indexes are left as they were.
C16_DetailsThreeCases ==
    [][(qOut = <<>> /\ qOut' # <<>> /\ qTool' = "get_requirement_details"
           /\ qArgs'.requirement_id # Undefined) =>
          LET reqId == qArgs'.requirement_id[1]
              out == qOut'[1]
          IN  /\ Len(reqId) > MAX_ID_LENGTH =>
                    out.kind = "error" /\ out.message = IdTooLongMessage
              /\ (Len(reqId) <= MAX_ID_LENGTH /\ MapHas(requirementIndex, reqId)) =>
                    /\ out.kind = "result"
                    /\ out.data.requirement.id = reqId
                    /\ out.data.requirement = MapGet(requirementIndex, reqId).requirement
                    /\ out.data.category_name = MapGet(requirementIndex, reqId).category.name
                    /\ out.data.category_id = MapGet(requirementIndex, reqId).category.id
              /\ (Len(reqId) <= MAX_ID_LENGTH /\ ~MapHas(requirementIndex, reqId)) =>
                    /\ out.kind = "error"
                    /\ out.message # IdTooLongMessage
                    /\ StringIncludes(out.message, <<"'">> \o reqId \o <<"'">>)
              /\ UNCHANGED <<asvsData, requirementIndex, categoryIndex, searchIndex>>]_vars

\* an id beyond the maximum length that the index holds was asked for, and
\* the answer is the length error
C16_Witness ==
    /\ Called("get_requirement_details")
    /\ qArgs.requirement_id # Undefined
    /\ Len(qArgs.requirement_id[1]) > MAX_ID_LENGTH
    /\ MapHas(requirementIndex, qArgs.requirement_id[1])
    /\ QOut.kind = "error"

\* no two requirements of the dataset share an id
UniqueIds ==
    \A i \in DOMAIN RequirementsOf(asvsData) : HasUniqueId(RequirementsOf(asvsData), i)

\* search_requirements was called with a query within the length limit and
\* with no level or one of the three levels
SearchCase ==
    /\ Called("search_requirements")
    /\ qArgs.query # Undefined
    /\ Len(qArgs.query[1]) <= MAX_QUERY_LENGTH
    /\ (qArgs.level = Undefined \/ Includes(<<1, 2, 3>>, qArgs.level))

\* the search index lists the id of req under a token of the query
HasQueryToken(req) ==
    \E t \in Range(tokenize(Str(qArgs.query[1]))) :
        MapHas(searchIndex, t) /\ SetHas(MapGet(searchIndex, t), req.id)

\* the answer holds exactly the requirements with a query token (and the
\* level, when one is given), each once, and none when the query has no token
SearchIsExact ==
    LET all == RequirementsOf(asvsData)
        P == {j \in DOMAIN all :
                 /\ HasQueryToken(all[j].requirement)
                 /\ (qArgs.level = Undefined
                        \/ qArgs.level[1] \in Range(all[j].requirement.level))}
        results == searchResultsOf(requirementIndex, searchIndex, qArgs.query[1], qArgs.level)
    IN  /\ QOut.kind = "result"
        /\ QOut.data.total = Cardinality(P)
        /\ Len(results) = Cardinality(P)
        /\ \A j \in P :
              Cardinality({i \in DOMAIN results : results[i] = all[j].requirement}) = 1
        /\ QOut.data.results =
               applyPagination(results, qArgs.offset,
                   Given(OrDefault(qArgs.limit, FromInt(SEARCH_DEFAULT_LIMIT)))).items
        /\ tokenize(Str(qArgs.query[1])) = <<>> => QOut.data.results = <<>>

\* C17 as stated: search_requirements returns, before pagination, exactly
\* the requirements that have a query token in their search-index token set
\* (and the level, when given), each once; a query without tokens gets an
\* empty result, not an error. For every dataset.
C17_SearchExactAnyDataset == SearchCase => SearchIsExact

\* C17 amended: the same, for datasets in which no two requirements share
\* an id.
C17_SearchExactUniqueIds == (SearchCase /\ UniqueIds) => SearchIsExact

\* a query of two tokens, the first in no requirement, with a level: some
\* requirement is returned and some is not
C17_Witness ==
    /\ SearchCase /\ UniqueIds
    /\ qArgs.level # Undefined
    /\ Len(tokenize(Str(qArgs.query[1]))) = 2
    /\ ~MapHas(searchIndex, tokenize(Str(qArgs.query[1]))[1])
    /\ QOut.kind = "result"
    /\ QOut.data.total >= 1
    /\ QOut.data.total < Len(RequirementsOf(asvsData))

\* recommend_priority_controls was called with a target level of 1, 2 or 3
RecommendCase ==
    Called("recommend_priority_controls") /\ Includes(<<1, 2, 3>>, qArgs.target_level)

\* the page of a list under the default limit of the recommendations
PageOf50(list) ==
    applyPagination(list, qArgs.offset,
        Given(OrDefault(qArgs.limit, FromInt(RECOMMEND_DEFAULT_LIMIT)))).items

\* C18: recommend_priority_controls returns exactly the requirements that
\* apply at target_level, whose lowest level is above current_level (0 when
\* absent) and whose category matches a focus area when any are given; each
\* is HIGH when the name of its category contains one of the fixed
\* high-priority names and MEDIUM otherwise, never LOW.
C18_RecommendationsExact ==
    RecommendCase =>
        LET all == RequirementsOf(asvsData)
            current == OrDefault(qArgs.current_level, 0)
            focus == OrDefault(qArgs.focus_areas, <<>>)
            P == {j \in DOMAIN all :
                     /\ qArgs.target_level[1] \in Range(all[j].requirement.level)
                     /\ \A l \in Range(all[j].requirement.level) : l > current
                     /\ focus # <<>> =>
                           \E f \in DOMAIN focus :
                               StringIncludes(toLowerCase(all[j].category.name),
                                              toLowerCase(focus[f]))}
            PriorityAt(j) ==
                IF \E h \in DOMAIN GENERAL_HIGH_PRIORITY_CATEGORIES :
                       StringIncludes(all[j].category.name, GENERAL_HIGH_PRIORITY_CATEGORIES[h])
                THEN "HIGH" ELSE "MEDIUM"
            list == recommendationsOf(asvsData, qArgs)
        IN  /\ QOut.kind = "result"
            /\ QOut.data.total = Cardinality(P)
            /\ Len(list) = Cardinality(P)
            /\ \A j \in P :
                  Cardinality({i \in DOMAIN list :
                      list[i] = all[j].requirement @@ [priority |-> PriorityAt(j)]}) = 1
            /\ \A i \in DOMAIN list : list[i].priority \in {"HIGH", "MEDIUM"}
            /\ QOut.data.recommendations = PageOf50(list)

\* focus areas and a current level were given; a HIGH and a MEDIUM
\* requirement are recommended and some requirement is not
C18_Witness ==
    /\ RecommendCase
    /\ qArgs.focus_areas # Undefined /\ qArgs.focus_areas[1] # <<>>
    /\ qArgs.current_level # Undefined /\ qArgs.current_level[1] >= 1
    /\ QOut.kind = "result"
    /\ \E i, j \in DOMAIN QOut.data.recommendations :
          /\ QOut.data.recommendations[i].priority = "HIGH"
          /\ QOut.data.recommendations[j].priority = "MEDIUM"
    /\ QOut.data.total < Len(RequirementsOf(asvsData))

\* every HIGH entry stands before every MEDIUM one, and entries of one
\* priority are in non-decreasing order of their lowest level
Ordered(list) ==
    \A i, j \in DOMAIN list :
        i < j =>
            /\ ~(list[i].priority = "MEDIUM" /\ list[j].priority = "HIGH")
            /\ list[i].priority = list[j].priority =>
                  MinLevel(list[i].level) <= MinLevel(list[j].level)

\* C19: in the list recommend_priority_controls returns, every HIGH entry
\* precedes every MEDIUM entry and entries of equal priority are in
\* non-decreasing order of lowest level; the page is cut from the sorted list.
C19_RecommendationsSorted ==
    RecommendCase =>
        /\ QOut.kind = "result"
        /\ Ordered(recommendationsOf(asvsData, qArgs))
        /\ Ordered(QOut.data.recommendations)
        /\ QOut.data.recommendations = PageOf50(recommendationsOf(asvsData, qArgs))

\* the second entry of the sorted list was asked for, and it is not the
\* second requirement the loop came upon: a MEDIUM entry of lowest level 1
\* that the dataset holds behind one of lowest level 2
C19_Witness ==
    /\ RecommendCase
    /\ qArgs.offset = Given(FromInt(1)) /\ qArgs.limit = Given(FromInt(1))
    /\ QOut.kind = "result"
    /\ Len(QOut.data.recommendations) = 1
    /\ LET pushed == Candidates(RequirementsOf(asvsData), qArgs.target_level,
                                OrDefault(qArgs.current_level, 0),
                                OrDefault(qArgs.focus_areas, <<>>))
       IN  /\ Len(pushed) >= 3
           /\ pushed[2].requirement # pushed[1].requirement
           /\ QOut.data.recommendations[1].priority = "MEDIUM"
           /\ \E k \in DOMAIN pushed :
                 /\ k > 1
                 /\ pushed[k].requirement @@ [priority |-> pushed[k].priority]
                       = QOut.data.recommendations[1]
                 /\ pushed[1].priority = "MEDIUM"
                 /\ pushed[1].minLevel > pushed[k].minLevel

\* get_compliance_requirements was called with one of the five framework
\* keys and with no level or one of the three levels
ComplianceCase ==
    /\ Called("get_compliance_requirements")
    /\ qArgs.framework # Undefined
    /\ qArgs.framework[1] \in DOMAIN FRAMEWORK_MAP
    /\ (qArgs.level = Undefined \/ Includes(<<1, 2, 3>>, qArgs.level))

\* C20: get_compliance_requirements returns exactly the requirements whose
\* reference list for the framework is there and not empty (and whose level
\* list holds the level, when one is given), each with that list as its
\* compliance_references; none with an empty or absent list.
C20_ComplianceExact ==
    ComplianceCase =>
        LET all == RequirementsOf(asvsData)
            fw == qArgs.framework[1]
            P == {j \in DOMAIN all :
                     /\ fw \in DOMAIN all[j].requirement.compliance
                     /\ all[j].requirement.compliance[fw] # <<>>
                     /\ (qArgs.level = Undefined
                            \/ qArgs.level[1] \in Range(all[j].requirement.level))}
            chosen == RequirementsAt(P)
            results == ComplianceResults(all, qArgs.framework, qArgs.level)
        IN  /\ QOut.kind = "result"
            /\ QOut.data.total = Cardinality(P)
            /\ results = [i \in DOMAIN chosen |->
                             chosen[i] @@ [compliance_references |-> chosen[i].compliance[fw]]]
            /\ \A i \in DOMAIN results : results[i].compliance_references # <<>>
            /\ QOut.data.requirements = PageOf(results)

\* a framework for which the dataset holds a requirement with references,
\* one with an empty list and one without the key: only the first is returned
C20_Witness ==
    /\ ComplianceCase
    /\ qArgs.offset = Undefined /\ qArgs.limit = Undefined
    /\ QOut.kind = "result"
    /\ Len(QOut.data.requirements) >= 1
    /\ LET all == RequirementsOf(asvsData)
           fw == qArgs.framework[1]
       IN  /\ \E j \in DOMAIN all :
                 /\ fw \in DOMAIN all[j].requirement.compliance
                 /\ all[j].requirement.compliance[fw] = <<>>
                 /\ \A i \in DOMAIN QOut.data.requirements :
                       QOut.data.requirements[i].id # all[j].requirement.id
           /\ \E j \in DOMAIN all :
                 /\ fw \notin DOMAIN all[j].requirement.compliance
                 /\ \A i \in DOMAIN QOut.data.requirements :
                       QOut.data.requirements[i].id # all[j].requirement.id

\* the level argument of the tool that was called
LevelArgument ==
    IF qTool = "recommend_priority_controls" THEN qArgs.target_level ELSE qArgs.level

\* the argument that the tool's schema requires
RequiredArgument ==
    CASE qTool = "get_requirements_by_level" -> qArgs.level
      [] qTool = "get_requirements_by_category" -> qArgs.category
      [] qTool = "get_requirement_details" -> qArgs.requirement_id
      [] qTool = "recommend_priority_controls" -> qArgs.target_level
      [] qTool = "search_requirements" -> qArgs.query
      [] qTool = "get_compliance_requirements" -> qArgs.framework
      [] qTool = "get_compliance_gap_analysis" -> qArgs.frameworks
      [] qTool = "map_requirement_to_compliance" -> qArgs.requirement_id

\* the tools that take a level
LevelTools ==
    {"get_requirements_by_level", "get_requirements_by_category", "search_requirements",
     "get_compliance_requirements", "recommend_priority_controls"}

\* C12: every operation that takes a level answers a level outside 1, 2, 3
\* with an error, never with a success result (the other arguments being
\* as the schema requires).
C12_InvalidLevelIsError ==
    (qOut # <<>> /\ qTool \in LevelTools
        /\ RequiredArgument # Undefined
        /\ LevelArgument # Undefined /\ LevelArgument[1] \notin {1, 2, 3}) =>
        QOut.kind = "error"

\* C13: every operation answers every argument object with a success
\* result or an error and never throws; a missing required argument and a
\* framework key outside the five are answered with an error.
C13_ErrorsAreStructured ==
    qOut # <<>> =>
        /\ QOut.kind \in {"result", "error"}
        /\ RequiredArgument = Undefined => QOut.kind = "error"
        /\ (qTool = "get_compliance_requirements" /\ qArgs.framework # Undefined
               /\ qArgs.framework[1] \notin DOMAIN FRAMEWORK_MAP) => QOut.kind = "error"

(***************************************************************************)
(* The compliance gap analysis                                             *)
(***************************************************************************)
\* a call of get_compliance_gap_analysis that was answered with a result
GapCase == Called("get_compliance_gap_analysis") /\ QOut.kind = "result"

\* the positions, in dataset order, of the requirements at the target level
\* with a non-empty reference list for the framework
Applicable(f) ==
    {p \in DOMAIN RequirementsOf(asvsData) :
        LET req == RequirementsOf(asvsData)[p].requirement
        IN  /\ Includes(req.level, qArgs.target_level)
            /\ f \in DOMAIN req.compliance
            /\ req.compliance[f] # <<>>}

\* the ids passed as implemented
ImplementedIds == Range(OrDefault(qArgs.implemented_requirements, <<>>))

\* the applicable requirements that are in the implemented set
ApplicableImplemented(f) ==
    {p \in Applicable(f) : RequirementsOf(asvsData)[p].requirement.id \in ImplementedIds}

\* the gap list of a framework in the answer
GapsOf(f) == MapGet(QOut.data.gaps, f)

\* the counts of the answer are those of the dataset
GapCountsExact ==
    /\ {QOut.data.coverage_summary[i].framework_key : i \in DOMAIN QOut.data.coverage_summary}
           = Range(qArgs.frameworks[1])
    /\ \A i \in DOMAIN QOut.data.coverage_summary :
          LET s == QOut.data.coverage_summary[i]
              f == s.framework_key
          IN  /\ s.total_requirements = Cardinality(Applicable(f))
              /\ s.implemented = Cardinality(ApplicableImplemented(f))
              /\ s.missing = s.total_requirements - s.implemented
              /\ s.missing = Len(GapsOf(f))
              /\ \A g \in DOMAIN GapsOf(f) : GapsOf(f)[g].requirement_id \notin ImplementedIds

\* C21: for every list of framework keys, one that names a framework twice
\* included, each framework's total is the number of requirements at the
\* target level with references for it, implemented the number of those in
\* the implemented set, and missing = total - implemented = the length of
\* the gap list, which holds no implemented requirement.
C21_GapCountsExact == GapCase => GapCountsExact

\* the nearest integer to 100 * implemented / total, the upper one of two
\* that are equally near, in exact arithmetic
RoundedPercentage(implemented, total) == (200 * implemented + total) \div (2 * total)

\* C22: coverage_percentage equals round(implemented / total x 100) when
\* total > 0 and 0 when total = 0, and always lies in 0..100.
C22_CoverageIsRounded ==
    (fnOut # <<>> /\ fnIn.fn = "coverage_percentage") =>
        /\ fnOut[1] \in 0 .. 100
        /\ fnOut[1] = IF fnIn.total > 0
                      THEN RoundedPercentage(fnIn.implemented, fnIn.total)
                      ELSE 0

\* HIGH before MEDIUM before LOW
Rank(priority) == CASE priority = "HIGH" -> 1 [] priority = "MEDIUM" -> 2 [] priority = "LOW" -> 3

\* C23: in the answer of get_compliance_gap_analysis every framework's gap
\* list is ordered by priority: every HIGH entry precedes every MEDIUM
\* entry, and every MEDIUM entry every LOW entry.
C23_GapsOrdered ==
    GapCase =>
        \A k \in DOMAIN QOut.data.gaps :
            LET list == QOut.data.gaps[k].value
            IN  \A i, j \in DOMAIN list :
                    i < j => Rank(list[i].priority) <= Rank(list[j].priority)

\* a gap list with all three priorities, which the dataset holds in the
\* order LOW, MEDIUM, HIGH, LOW
C23_Witness ==
    /\ GapCase
    /\ asvsData = <<MakeCategory(ShellLogging, <<ReqF, ReqG, ReqC, ReqH>>)>>
    /\ qArgs.frameworks = Given(<<"pci_dss">>)
    /\ [i \in DOMAIN GapsOf("pci_dss") |->
           <<GapsOf("pci_dss")[i].requirement_id, GapsOf("pci_dss")[i].priority>>]
         = << <<ReqC.id, "HIGH">>, <<ReqG.id, "MEDIUM">>, <<ReqF.id, "LOW">>, <<ReqH.id, "LOW">> >>

(***************************************************************************)
(* calculateGapPriority                                                    *)
(***************************************************************************)
\* a call of calculateGapPriority that has returned
PriorityCase == fnOut # <<>> /\ fnIn.fn = "calculateGapPriority"

\* the requirement's references for the framework hold a critical substring
HasCriticalReference ==
    /\ fnIn.framework \in DOMAIN criticalCompliancePatterns
    /\ fnIn.framework \in DOMAIN fnIn.req.compliance
    /\ \E r \in Range(fnIn.req.compliance[fnIn.framework]),
          p \in Range(criticalCompliancePatterns[fnIn.framework]) :
          \E at \in 1 .. (Len(r) - Len(p) + 1) : SubSeq(r, at, at + Len(p) - 1) = p

\* the category name is one of the compliance-high-priority names
CategoryInSet == fnIn.req.category \in Range(COMPLIANCE_HIGH_PRIORITY_CATEGORIES)

\* the category name holds one of the compliance-high-priority names
CategoryHoldsName ==
    \E name \in Range(COMPLIANCE_HIGH_PRIORITY_CATEGORIES) :
        \E at \in 1 .. (Len(fnIn.req.category) - Len(name) + 1) :
            SubSeq(fnIn.req.category, at, at + Len(name) - 1) = name

\* the priority that the rule gives when highCategory says whether the
\* category counts as high-priority
RulePriority(highCategory) ==
    IF HasCriticalReference \/ (highCategory /\ 1 \in Range(fnIn.req.level)) THEN "HIGH"
    ELSE IF highCategory \/ 2 \in Range(fnIn.req.level) THEN "MEDIUM"
    ELSE "LOW"

\* C24 as stated: calculateGapPriority returns HIGH exactly when the
\* references for the framework contain a critical substring or the category
\* is in the compliance-high-priority set and the requirement applies at
\* level 1, otherwise MEDIUM exactly when the category is in that set or
\* the requirement applies at level 2, otherwise LOW.
C24_PriorityByMembership == PriorityCase => fnOut[1] = RulePriority(CategoryInSet)

\* C24, amended: the same rule with a category counting as high-priority
\* when its name holds one of the names of the set.
C24_PriorityByContainment == PriorityCase => fnOut[1] = RulePriority(CategoryHoldsName)

\* a requirement without critical references at levels 1 and 3 in the
\* category "Secure Communication" gets HIGH
C24_Witness ==
    /\ PriorityCase
    /\ fnIn.req = MakeRequirement(ReqH, ShellComm.name)
    /\ fnIn.framework = "pci_dss"
    /\ ~HasCriticalReference
    /\ ~CategoryInSet
    /\ fnOut[1] = "HIGH"

(***************************************************************************)
(* map_requirement_to_compliance                                           *)
(***************************************************************************)
\* a call of map_requirement_to_compliance with an id
MapCase == Called("map_requirement_to_compliance") /\ qArgs.requirement_id # Undefined

\* the lengths of the lists of a mapping added up
RECURSIVE SumOfLengths(_)
SumOfLengths(mapping) ==
    IF DOMAIN mapping = {} THEN 0
    ELSE LET k == CHOOSE x \in DOMAIN mapping : TRUE
         IN  Len(mapping[k]) + SumOfLengths([x \in DOMAIN mapping \ {k} |-> mapping[x]])

\* the answer maps exactly the frameworks for which the indexed requirement
\* has references, and its counts are those of the mapping
MappingIsExact ==
    LET req == MapGet(requirementIndex, qArgs.requirement_id[1]).requirement
        referenced == {f \in DOMAIN req.compliance : req.compliance[f] # <<>>}
        mapping == QOut.data.compliance_mappings
    IN  /\ QOut.kind = "result"
        /\ QOut.data.requirement.id = req.id
        /\ QOut.data.requirement.description = req.description
        /\ DOMAIN mapping = {FrameworkName(f) : f \in referenced}
        /\ \A f \in referenced : mapping[FrameworkName(f)] = req.compliance[f]
        /\ QOut.data.total_framework_mappings = Cardinality(referenced)
        /\ QOut.data.total_control_references = SumOfLengths(mapping)
        /\ (QOut.data.compliance_impact = <<"N","o"," ","d","i","r","e","c","t"," ","c","o","m","p","l","i","a","n","c","e"," ","m","a","p","p","i","n","g","s"," ","i","d","e","n","t","i","f","i","e","d">>)
               <=> SumOfLengths(mapping) = 0
        /\ (QOut.data.compliance_impact
               = <<"I","m","p","l","e","m","e","n","t","i","n","g"," ","t","h","i","s"," ","r","e","q","u","i","r","e","m","e","n","t"," ","h","e","l","p","s"," ","s","a","t","i","s","f","y"," ","m","u","l","t","i","p","l","e"," ","c","o","m","p","l","i","a","n","c","e"," ","f","r","a","m","e","w","o","r","k","s">>)
               <=> SumOfLengths(mapping) > 0

\* C25: map_requirement_to_compliance answers an indexed id with one mapping
\* entry per framework whose reference list is non-empty and none for an
\* empty list, with total_framework_mappings the number of entries,
\* total_control_references the sum of their lengths, and a summary that
\* reports a mapping exactly when that sum is positive; an id that is not
\* indexed gets a not-found error, an id beyond the length limit the length
\* error.
C25_MappingExact ==
    MapCase =>
        LET id == qArgs.requirement_id[1]
        IN  IF Len(id) > MAX_ID_LENGTH
            THEN QOut = createErrorResponse(IdTooLongMessage)
            ELSE IF id \in MapKeys(requirementIndex)
            THEN MappingIsExact
            ELSE QOut = createErrorResponse(<<"R","e","q","u","i","r","e","m","e","n","t"," ","'">> \o id \o <<"'"," ","n","o","t"," ","f","o","u","n","d",".">>)

\* requirement 2.1.1 with two PCI references, one HIPAA, one GDPR reference
\* and empty lists for the other two frameworks: three entries, four
\* references
C25_Witness ==
    /\ MapCase
    /\ qArgs.requirement_id = Given(ReqC.id)
    /\ MapHas(requirementIndex, ReqC.id)
    /\ QOut.kind = "result"
    /\ DOMAIN QOut.data.compliance_mappings = {"PCI DSS", "HIPAA", "GDPR"}
    /\ QOut.data.total_framework_mappings = 3
    /\ QOut.data.total_control_references = 4

(***************************************************************************)
(* The resolution of a category name                                       *)
(***************************************************************************)
\* a call of get_requirements_by_category with a name within the length limit
CategoryCase ==
    /\ Called("get_requirements_by_category")
    /\ qArgs.category # Undefined
    /\ Len(qArgs.category[1]) <= MAX_CATEGORY_LENGTH

\* the string a holds the string b
Holds(a, b) == \E at \in 1 .. (Len(a) - Len(b) + 1) : SubSeq(a, at, at + Len(b) - 1) = b

\* the positions of the category index whose key equals the lower-cased
\* input, holds it or is held by it
MatchingKeys ==
    LET s == toLowerCase(qArgs.category[1])
    IN  {i \in DOMAIN categoryIndex :
            \/ categoryIndex[i].key = s
            \/ Holds(categoryIndex[i].key, s)
            \/ Holds(s, categoryIndex[i].key)}

\* the answer is the not-found error for the name
IsCategoryNotFound ==
    /\ QOut.kind = "error"
    /\ LET start == <<"C","a","t","e","g","o","r","y"," ","'">> \o qArgs.category[1] \o <<"'"," ","n","o","t"," ","f","o","u","n","d",".">>
       IN  /\ Len(QOut.message) >= Len(start)
           /\ SubSeq(QOut.message, 1, Len(start)) = start

\* C27: get_requirements_by_category answers a name (within the length
\* limit) with the not-found error exactly when no key of the category
\* index equals the lower-cased name, holds it or is held by it; otherwise,
\* when no key equals it, the answer is for the category of the first key,
\* in insertion order, that holds the name or is held by it.
C27_NotFoundExactlyWhenNoKeyMatches ==
    CategoryCase =>
        IF MatchingKeys = {} THEN IsCategoryNotFound
        ELSE /\ QOut.kind = "result"
             /\ toLowerCase(qArgs.category[1]) \notin MapKeys(categoryIndex) =>
                   LET first == CHOOSE i \in MatchingKeys : \A j \in MatchingKeys : i <= j
                   IN  /\ QOut.data.id = categoryIndex[first].value.id
                       /\ QOut.data.category = categoryIndex[first].value.name

\* no key equals the name, keys of two categories hold it, and a key is
\* held by another name: the answer is for the category of the first key
C27_Witness ==
    /\ CategoryCase
    /\ qArgs.category[1] = <<"V">>
    /\ toLowerCase(qArgs.category[1]) \notin MapKeys(categoryIndex)
    /\ \E i, j \in MatchingKeys :
          /\ i < j
          /\ categoryIndex[i].value.id # categoryIndex[j].value.id
          /\ QOut.kind = "result"
          /\ QOut.data.id = categoryIndex[i].value.id
          /\ \A k \in MatchingKeys : i <= k

(***************************************************************************)
(* Requirements that share an id                                           *)
(***************************************************************************)
\* the positions, in dataset order, of the requirements with the id
PositionsOf(id) ==
    {p \in DOMAIN RequirementsOf(asvsData) : RequirementsOf(asvsData)[p].requirement.id = id}

\* the ids that two requirements of the dataset share
SharedIds ==
    {RequirementsOf(asvsData)[p].requirement.id :
        p \in {q \in DOMAIN RequirementsOf(asvsData) :
                  Cardinality(PositionsOf(RequirementsOf(asvsData)[q].requirement.id)) > 1}}

\* the entry of the dataset that was loaded last under the id
LaterEntry(id) ==
    RequirementsOf(asvsData)[CHOOSE p \in PositionsOf(id) : \A q \in PositionsOf(id) : q <= p]

\* C29: when two requirements of the dataset have the same id, the ID index
\* holds the later-loaded one under that id, and get_requirement_details
\* and search_requirements resolve the id to the later one only.
C29_LaterDuplicateWins ==
    \A id \in SharedIds :
        /\ MapHas(requirementIndex, id)
        /\ MapGet(requirementIndex, id).requirement = LaterEntry(id).requirement
        /\ MapGet(requirementIndex, id).category.id = LaterEntry(id).category.id
        /\ Cardinality({i \in DOMAIN requirementIndex : requirementIndex[i].key = id}) = 1
        /\ (Called("get_requirement_details") /\ qArgs.requirement_id = Given(id)) =>
               /\ QOut.kind = "result"
               /\ QOut.data.requirement = LaterEntry(id).requirement
               /\ QOut.data.category_id = LaterEntry(id).category.id
        /\ (Called("search_requirements") /\ QOut.kind = "result") =>
               /\ \A i \in DOMAIN QOut.data.results :
                     QOut.data.results[i].id = id =>
                         QOut.data.results[i] = LaterEntry(id).requirement
               /\ Cardinality({i \in DOMAIN QOut.data.results :
                                  QOut.data.results[i].id = id}) <= 1

\* a search for a word that only the earlier of two requirements with one
\* id has: the answer holds the later one
C29_Witness ==
    /\ Called("search_requirements")
    /\ qArgs.query = Given(<<"T","L","S">>)
    /\ ReqA.id \in SharedIds
    /\ QOut.kind = "result"
    /\ \E i \in DOMAIN QOut.data.results :
          /\ QOut.data.results[i].id = ReqA.id
          /\ QOut.data.results[i].description = ReqA2.description
    /\ \E p, q \in PositionsOf(ReqA.id) :
          /\ p < q
          /\ RequirementsOf(asvsData)[p].requirement.description = ReqA.description

(***************************************************************************)
(* The HIPAA references of the loaded dataset                              *)
(***************************************************************************)
\* the requirement carries, in compliance.hipaa, the references that the
\* ASVS-to-HIPAA index holds for its id
CarriesHipaaReferences(req) ==
    LET hipaaRefs == MapGet(asvsToHipaaIndex, req.id)
    IN  /\ "hipaa" \in DOMAIN req.compliance
        /\ req.compliance.hipaa = [i \in DOMAIN hipaaRefs |-> hipaaRefs[i].hipaa_reference]

\* every requirement of the dataset whose id the index knows carries its
\* references
DatasetIsEnriched ==
    \A e \in Range(RequirementsOf(asvsData)) :
        (MapHas(asvsToHipaaIndex, e.requirement.id)
            /\ MapGet(asvsToHipaaIndex, e.requirement.id) # <<>>) =>
            CarriesHipaaReferences(e.requirement)

\* C26: in every state in which a tool call is answered while hipaaLoaded
\* is true, each requirement of the current dataset whose id has an entry
\* in the ASVS-to-HIPAA index carries those references in compliance.hipaa,
\* also when several calls arrive before the first load has finished.
C26_AnsweredDatasetIsEnriched == (Answered /\ hipaaLoaded) => DatasetIsEnriched

(***************************************************************************)
(* The walk through the pages of a list                                    *)
(***************************************************************************)
\* the pages one behind the other
RECURSIVE Concatenation(_)
Concatenation(pages) ==
    IF pages = <<>> THEN <<>> ELSE Head(pages) \o Concatenation(Tail(pages))

\* C28: for every item list and every fixed limit, the walk that starts at
\* offset 0 and advances the offset by the reported returned while hasMore
\* is true comes to an end, and the pages one behind the other are the
\* whole list, every item once and in list order.
C28_WalkEndsWithWholeList == <>(WalkDone /\ Concatenation(wkPages) = pgItems)

\* a finished walk of at least three pages over a list of distinct items
\* with a limit that is not a whole number
C28_Witness ==
    /\ WalkDone
    /\ Len(wkPages) >= 3
    /\ pgLimit # Undefined /\ ~IsInteger(pgLimit[1])
    /\ Concatenation(wkPages) = pgItems

(***************************************************************************)
(* The OpenCRE client's rate limit                                         *)
(***************************************************************************)
\* C30: any two HTTP requests that one OpenCREClient issues through
\* fetchWithRateLimit start at least minRequestInterval (100 ms) apart,
\* however the overlapping calls of getISO27001Mappings interleave.
C30_RequestsStartApart ==
    \A i, j \in DOMAIN creRequests :
        i < j => creRequests[j] - creRequests[i] >= minRequestInterval

=============================================================================
